---------------------------- MODULE Spec2Model ----------------------------
(***************************************************************************)
(* A model of the FBref table classification and merge engine              *)
(* (fbref_parser): the field-player page pipeline of                       *)
(* FieldPlayerParser.parse_player, the column normalizer, and the league   *)
(* metadata cache of utils/league_discovery.py.                            *)
(*                                                                         *)
(* Python strings are modelled as sequences of one-character strings, so   *)
(* that substring tests, replacements and splits are computed as the code  *)
(* computes them.                                                          *)
(***************************************************************************)
EXTENDS Integers, Sequences, FiniteSets, TLC

(***************************************************************************)
(* Bounds of the model.                                                    *)
(***************************************************************************)
\* Longest page (number of tables on one page) the model enumerates.
MaxTables == 2
\* Longest list of league entries in the metadata cache file.
MaxLeagues == 2

(***************************************************************************)
(* Python str operations.                                                  *)
(***************************************************************************)
UpperChars == <<"A","B","C","D","E","F","G","H","I","J","K","L","M",
                "N","O","P","Q","R","S","T","U","V","W","X","Y","Z">>
LowerChars == <<"a","b","c","d","e","f","g","h","i","j","k","l","m",
                "n","o","p","q","r","s","t","u","v","w","x","y","z">>
DigitChars == <<"0","1","2","3","4","5","6","7","8","9">>

\* str.lower() on one character.
Lower1(c) ==
    IF \E i \in 1..26 : UpperChars[i] = c
    THEN LowerChars[CHOOSE i \in 1..26 : UpperChars[i] = c]
    ELSE c

\* str.lower()
lower(s) == [i \in 1..Len(s) |-> Lower1(s[i])]

\* s[i:].startswith(sub), i counted from 1.
StartsWithAt(s, sub, i) ==
    /\ i + Len(sub) - 1 <= Len(s)
    /\ \A k \in 1..Len(sub) : s[i + k - 1] = sub[k]

\* sub in s
In(sub, s) == \E i \in 1..(Len(s) - Len(sub) + 1) : StartsWithAt(s, sub, i)

\* s.startswith(sub), s.endswith(sub)
startswith(s, sub) == StartsWithAt(s, sub, 1)
endswith(s, sub) ==
    Len(sub) <= Len(s) /\ StartsWithAt(s, sub, Len(s) - Len(sub) + 1)

\* s.replace(old, new): every non-overlapping occurrence, left to right.
RECURSIVE ReplaceFrom(_, _, _, _)
ReplaceFrom(s, old, new, i) ==
    IF i > Len(s) THEN <<>>
    ELSE IF StartsWithAt(s, old, i)
         THEN new \o ReplaceFrom(s, old, new, i + Len(old))
         ELSE <<s[i]>> \o ReplaceFrom(s, old, new, i + 1)
replace(s, old, new) == ReplaceFrom(s, old, new, 1)

\* re.sub(r'_+', '_', s)
RECURSIVE CollapseFrom(_, _)
CollapseFrom(s, i) ==
    IF i > Len(s) THEN <<>>
    ELSE IF s[i] = "_" /\ i > 1 /\ s[i - 1] = "_"
         THEN CollapseFrom(s, i + 1)
         ELSE <<s[i]>> \o CollapseFrom(s, i + 1)
collapse_underscores(s) == CollapseFrom(s, 1)

\* s.strip('_')
RECURSIVE lstrip_(_)
lstrip_(s) == IF Len(s) > 0 /\ s[1] = "_" THEN lstrip_(Tail(s)) ELSE s
RECURSIVE rstrip_(_)
rstrip_(s) ==
    IF Len(s) > 0 /\ s[Len(s)] = "_" THEN rstrip_(SubSeq(s, 1, Len(s) - 1)) ELSE s
strip_(s) == rstrip_(lstrip_(s))

\* s.strip() == '' : the string is empty or only spaces.
IsBlank(s) == \A i \in 1..Len(s) : s[i] = " "

\* s.split(sep)[-1] for a one-character separator.
RECURSIVE LastPartFrom(_, _, _)
LastPartFrom(s, sep, i) ==
    IF i = 0 THEN s
    ELSE IF s[i] = sep THEN SubSeq(s, i + 1, Len(s))
         ELSE LastPartFrom(s, sep, i - 1)
split_last(s, sep) == LastPartFrom(s, sep, Len(s))

\* s.split(sep) for a one-character separator: the list of parts.
RECURSIVE SplitFrom(_, _, _, _)
SplitFrom(s, sep, i, cur) ==
    IF i > Len(s) THEN <<cur>>
    ELSE IF s[i] = sep THEN <<cur>> \o SplitFrom(s, sep, i + 1, <<>>)
         ELSE SplitFrom(s, sep, i + 1, Append(cur, s[i]))
split(s, sep) == SplitFrom(s, sep, 1, <<>>)

\* s.isdigit()
isdigit(s) ==
    Len(s) > 0 /\ \A i \in 1..Len(s) : \E d \in 1..10 : DigitChars[d] = s[i]

\* sep.join(parts)
RECURSIVE join(_, _)
join(sep, parts) ==
    IF Len(parts) = 0 THEN <<>>
    ELSE IF Len(parts) = 1 THEN parts[1]
         ELSE parts[1] \o sep \o join(sep, Tail(parts))

\* Generic list helpers.
Range(f) == {f[i] : i \in DOMAIN f}
\* sum(1 for m in markers if P(m))
CountIf(markers, P(_)) == Cardinality({i \in DOMAIN markers : P(markers[i])})

(***************************************************************************)
(* constants.py                                                            *)
(***************************************************************************)
\* The nine field-player categories, in parse_player's expected_tables order.
expected_tables ==
    <<"standard", "shooting", "passing", "pass_types", "gca", "defense",
      "possession", "playing_time", "misc">>
Categories == Range(expected_tables)

\* The category name as the Python string appended to column names.
CategoryStr ==
    [standard |-> <<"s","t","a","n","d","a","r","d">>, shooting |-> <<"s","h","o","o","t","i","n","g">>,
     passing |-> <<"p","a","s","s","i","n","g">>, pass_types |-> <<"p","a","s","s","_","t","y","p","e","s">>,
     gca |-> <<"g","c","a">>, defense |-> <<"d","e","f","e","n","s","e">>,
     possession |-> <<"p","o","s","s","e","s","s","i","o","n">>, playing_time |-> <<"p","l","a","y","i","n","g","_","t","i","m","e">>,
     misc |-> <<"m","i","s","c">>]

UNIQUE_MARKERS ==
    [gca |-> <<<<"g","c","a">>, <<"s","c","a","9","0">>, <<"g","o","a","l"," ","c","r","e","a","t","i","o","n">>, <<"s","h","o","t"," ","c","r","e","a","t","i","o","n">>>>,
     possession |-> <<<<"t","o","u","c","h","e","s">>, <<"c","a","r","r","i","e","s">>, <<"t","a","k","e","-","o","n","s">>, <<"d","r","i","b","b","l","e","s">>>>,
     misc |-> <<<<"r","e","c","o","v">>, <<"a","e","r","i","a","l">>, <<"f","l","s">>, <<"f","l","d">>>>,
     playing_time |-> <<<<"s","t","a","r","t","s">>, <<"m","n","/","s","t","a","r","t">>, <<"c","o","m","p","l">>, <<"m","i","n","%">>>>,
     defense |-> <<<<"t","k","l">>, <<"t","k","l","+","i","n","t">>, <<"b","l","o","c","k","s">>, <<"c","h","a","l","l","e","n","g","e","s">>>>,
     pass_types |-> <<<<"l","i","v","e">>, <<"d","e","a","d">>, <<"f","k">>, <<"t","b">>>>,
     passing |-> <<<<"c","m","p">>, <<"a","t","t">>, <<"c","m","p","%">>, <<"t","o","t","d","i","s","t">>>>,
     shooting |-> <<<<"s","h">>, <<"s","o","t">>, <<"s","o","t","%">>, <<"g","/","s","h">>>>,
     standard |-> <<<<"g","l","s">>, <<"a","s","t">>, <<"g","+","a">>, <<"p","k">>>>]

KEY_COLUMNS ==
    <<<<"S","e","a","s","o","n">>, <<"A","g","e">>, <<"S","q","u","a","d">>, <<"C","o","u","n","t","r","y">>, <<"C","o","m","p">>, <<"L","g","R","a","n","k">>>>
KEY_COLUMNS_WITH_MP == KEY_COLUMNS \o <<<<"M","P">>>>

\* PLAYING_TIME_PATTERNS, each regular expression as the test re.search
\* makes with re.IGNORECASE on the column name.
PlayingTimeExact ==
    <<<<"m","p">>, <<"s","t","a","r","t","s">>, <<"m","i","n">>, <<"9","0","s">>, <<"m","n","/","m","p">>, <<"m","i","n","%">>,
      <<"m","n","/","s","t","a","r","t">>, <<"c","o","m","p","l">>>>
MatchesPlayingTimePattern(col_lower) ==
    \* r'Playing[_ ]Time[_ ]'
    \/ \E a \in {"_", " "}, b \in {"_", " "} :
          In(<<"p","l","a","y","i","n","g">> \o <<a>> \o <<"t","i","m","e">> \o <<b>>, col_lower)
    \* r'^(MP|Starts|Min|90s|Mn/MP|Min%|Mn/Start|Compl)$'
    \/ \E i \in DOMAIN PlayingTimeExact : col_lower = PlayingTimeExact[i]
    \* r'Performance_(Starts|Min|90s)'
    \/ \E x \in {<<"s","t","a","r","t","s">>, <<"m","i","n">>, <<"9","0","s">>} :
          In(<<"p","e","r","f","o","r","m","a","n","c","e","_">> \o x, col_lower)
    \* r'Team_Success_'
    \/ In(<<"t","e","a","m","_","s","u","c","c","e","s","s","_">>, col_lower)
    \* r'Subs_'
    \/ In(<<"s","u","b","s","_">>, col_lower)

FIELD_PLAYER_BASIC_RENAMES ==
    << <<<<"S","e","a","s","o","n">>, <<"s","e","a","s","o","n">>>>, <<<<"A","g","e">>, <<"a","g","e">>>>,
       <<<<"S","q","u","a","d">>, <<"s","q","u","a","d">>>>, <<<<"C","o","u","n","t","r","y">>, <<"c","o","u","n","t","r","y">>>>,
       <<<<"C","o","m","p">>, <<"c","o","m","p","e","t","i","t","i","o","n">>>> >>

FIELD_PLAYER_PLAYING_TIME_RENAMES ==
    << <<<<"M","P","_","p","l","a","y","i","n","g","_","t","i","m","e">>, <<"m","a","t","c","h","e","s","_","p","l","a","y","e","d">>>>,
       <<<<"P","l","a","y","i","n","g"," ","T","i","m","e","_","M","P","_","p","l","a","y","i","n","g","_","t","i","m","e">>, <<"m","a","t","c","h","e","s","_","p","l","a","y","e","d">>>>,
       <<<<"S","t","a","r","t","s","_","p","l","a","y","i","n","g","_","t","i","m","e">>, <<"s","t","a","r","t","s">>>>,
       <<<<"P","l","a","y","i","n","g"," ","T","i","m","e","_","S","t","a","r","t","s","_","p","l","a","y","i","n","g","_","t","i","m","e">>, <<"s","t","a","r","t","s">>>>,
       <<<<"M","i","n","_","p","l","a","y","i","n","g","_","t","i","m","e">>, <<"m","i","n","u","t","e","s">>>>,
       <<<<"P","l","a","y","i","n","g"," ","T","i","m","e","_","M","i","n","_","p","l","a","y","i","n","g","_","t","i","m","e">>, <<"m","i","n","u","t","e","s">>>>,
       <<<<"9","0","s","_","p","l","a","y","i","n","g","_","t","i","m","e">>, <<"m","i","n","u","t","e","s","_","9","0">>>>,
       <<<<"P","l","a","y","i","n","g"," ","T","i","m","e","_","9","0","s","_","p","l","a","y","i","n","g","_","t","i","m","e">>, <<"m","i","n","u","t","e","s","_","9","0">>>>,
       <<<<"P","l","a","y","i","n","g"," ","T","i","m","e","_","M","n","/","M","P">>, <<"m","i","n","u","t","e","s","_","p","e","r","_","m","a","t","c","h">>>>,
       <<<<"M","n","/","M","P","_","p","l","a","y","i","n","g","_","t","i","m","e">>, <<"m","i","n","u","t","e","s","_","p","e","r","_","m","a","t","c","h">>>>,
       <<<<"P","l","a","y","i","n","g"," ","T","i","m","e","_","M","n","/","M","P","_","p","l","a","y","i","n","g","_","t","i","m","e">>, <<"m","i","n","u","t","e","s","_","p","e","r","_","m","a","t","c","h">>>>,
       <<<<"P","l","a","y","i","n","g"," ","T","i","m","e","_","M","i","n","%","_","p","l","a","y","i","n","g","_","t","i","m","e">>, <<"m","i","n","u","t","e","s","_","p","c","t">>>>,
       <<<<"M","i","n","%","_","p","l","a","y","i","n","g","_","t","i","m","e">>, <<"m","i","n","u","t","e","s","_","p","c","t">>>>,
       <<<<"S","t","a","r","t","s","_","S","t","a","r","t","s","_","p","l","a","y","i","n","g","_","t","i","m","e">>, <<"s","t","a","r","t","s","_","t","o","t","a","l">>>>,
       <<<<"S","t","a","r","t","s","_","M","n","/","S","t","a","r","t","_","p","l","a","y","i","n","g","_","t","i","m","e">>, <<"m","i","n","u","t","e","s","_","p","e","r","_","s","t","a","r","t">>>>,
       <<<<"M","n","/","S","t","a","r","t","_","p","l","a","y","i","n","g","_","t","i","m","e">>, <<"m","i","n","u","t","e","s","_","p","e","r","_","s","t","a","r","t">>>>,
       <<<<"S","t","a","r","t","s","_","C","o","m","p","l">>, <<"m","a","t","c","h","e","s","_","c","o","m","p","l","e","t","e","d">>>>,
       <<<<"C","o","m","p","l","_","p","l","a","y","i","n","g","_","t","i","m","e">>, <<"m","a","t","c","h","e","s","_","c","o","m","p","l","e","t","e","d">>>>,
       <<<<"S","t","a","r","t","s","_","C","o","m","p","l","_","p","l","a","y","i","n","g","_","t","i","m","e">>, <<"m","a","t","c","h","e","s","_","c","o","m","p","l","e","t","e","d">>>>,
       <<<<"S","u","b","s","_","S","u","b","s","_","p","l","a","y","i","n","g","_","t","i","m","e">>, <<"s","u","b","s","_","o","n">>>>,
       <<<<"S","u","b","s","_","p","l","a","y","i","n","g","_","t","i","m","e">>, <<"s","u","b","s","_","o","n">>>>,
       <<<<"S","u","b","s","_","M","n","/","S","u","b","_","p","l","a","y","i","n","g","_","t","i","m","e">>, <<"m","i","n","u","t","e","s","_","p","e","r","_","s","u","b">>>>,
       <<<<"M","n","/","S","u","b","_","p","l","a","y","i","n","g","_","t","i","m","e">>, <<"m","i","n","u","t","e","s","_","p","e","r","_","s","u","b">>>>,
       <<<<"S","u","b","s","_","u","n","S","u","b","_","p","l","a","y","i","n","g","_","t","i","m","e">>, <<"s","u","b","s","_","u","n","u","s","e","d">>>>,
       <<<<"u","n","S","u","b","_","p","l","a","y","i","n","g","_","t","i","m","e">>, <<"s","u","b","s","_","u","n","u","s","e","d">>>>,
       <<<<"T","e","a","m"," ","S","u","c","c","e","s","s","_","P","P","M","_","p","l","a","y","i","n","g","_","t","i","m","e">>, <<"t","e","a","m","_","p","o","i","n","t","s","_","p","e","r","_","m","a","t","c","h">>>>,
       <<<<"P","P","M","_","p","l","a","y","i","n","g","_","t","i","m","e">>, <<"t","e","a","m","_","p","o","i","n","t","s","_","p","e","r","_","m","a","t","c","h">>>>,
       <<<<"T","e","a","m"," ","S","u","c","c","e","s","s","_","o","n","G","_","p","l","a","y","i","n","g","_","t","i","m","e">>, <<"t","e","a","m","_","g","o","a","l","s","_","f","o","r">>>>,
       <<<<"o","n","G","_","p","l","a","y","i","n","g","_","t","i","m","e">>, <<"t","e","a","m","_","g","o","a","l","s","_","f","o","r">>>>,
       <<<<"T","e","a","m"," ","S","u","c","c","e","s","s","_","o","n","G","A","_","p","l","a","y","i","n","g","_","t","i","m","e">>, <<"t","e","a","m","_","g","o","a","l","s","_","a","g","a","i","n","s","t">>>>,
       <<<<"o","n","G","A","_","p","l","a","y","i","n","g","_","t","i","m","e">>, <<"t","e","a","m","_","g","o","a","l","s","_","a","g","a","i","n","s","t">>>>,
       <<<<"T","e","a","m"," ","S","u","c","c","e","s","s","_","+","/","-","_","p","l","a","y","i","n","g","_","t","i","m","e">>, <<"t","e","a","m","_","g","o","a","l","_","d","i","f","f">>>>,
       <<<<"+","/","-","_","p","l","a","y","i","n","g","_","t","i","m","e">>, <<"t","e","a","m","_","g","o","a","l","_","d","i","f","f">>>>,
       <<<<"T","e","a","m"," ","S","u","c","c","e","s","s","_","+","/","-","9","0","_","p","l","a","y","i","n","g","_","t","i","m","e">>, <<"t","e","a","m","_","g","o","a","l","_","d","i","f","f","_","p","e","r","9","0">>>>,
       <<<<"+","/","-","9","0","_","p","l","a","y","i","n","g","_","t","i","m","e">>, <<"t","e","a","m","_","g","o","a","l","_","d","i","f","f","_","p","e","r","9","0">>>>,
       <<<<"T","e","a","m"," ","S","u","c","c","e","s","s","_","O","n","-","O","f","f","_","p","l","a","y","i","n","g","_","t","i","m","e">>, <<"t","e","a","m","_","o","n","_","o","f","f">>>>,
       <<<<"O","n","-","O","f","f","_","p","l","a","y","i","n","g","_","t","i","m","e">>, <<"t","e","a","m","_","o","n","_","o","f","f">>>>,
       <<<<"T","e","a","m"," ","S","u","c","c","e","s","s"," ","(","x","G",")","_","o","n","x","G","_","p","l","a","y","i","n","g","_","t","i","m","e">>, <<"t","e","a","m","_","x","g","_","f","o","r">>>>,
       <<<<"o","n","x","G","_","p","l","a","y","i","n","g","_","t","i","m","e">>, <<"t","e","a","m","_","x","g","_","f","o","r","_","x","g">>>>,
       <<<<"T","e","a","m"," ","S","u","c","c","e","s","s"," ","(","x","G",")","_","o","n","x","G","A","_","p","l","a","y","i","n","g","_","t","i","m","e">>, <<"t","e","a","m","_","x","g","_","a","g","a","i","n","s","t">>>>,
       <<<<"o","n","x","G","A","_","p","l","a","y","i","n","g","_","t","i","m","e">>, <<"t","e","a","m","_","x","g","_","a","g","a","i","n","s","t","_","x","g">>>>,
       <<<<"T","e","a","m"," ","S","u","c","c","e","s","s"," ","(","x","G",")","_","x","G","+","/","-","_","p","l","a","y","i","n","g","_","t","i","m","e">>, <<"t","e","a","m","_","x","g","_","d","i","f","f">>>>,
       <<<<"x","G","+","/","-","_","p","l","a","y","i","n","g","_","t","i","m","e">>, <<"t","e","a","m","_","x","g","_","d","i","f","f">>>>,
       <<<<"T","e","a","m"," ","S","u","c","c","e","s","s"," ","(","x","G",")","_","x","G","+","/","-","9","0","_","p","l","a","y","i","n","g","_","t","i","m","e">>, <<"t","e","a","m","_","x","g","_","d","i","f","f","_","p","e","r","9","0">>>>,
       <<<<"x","G","+","/","-","9","0","_","p","l","a","y","i","n","g","_","t","i","m","e">>, <<"t","e","a","m","_","x","g","_","d","i","f","f","_","p","e","r","9","0">>>>,
       <<<<"T","e","a","m"," ","S","u","c","c","e","s","s"," ","(","x","G",")","_","O","n","-","O","f","f","_","p","l","a","y","i","n","g","_","t","i","m","e">>, <<"t","e","a","m","_","x","g","_","o","n","_","o","f","f">>>> >>

FIELD_PLAYER_SUFFIX_MAP ==
    << <<<<"_","s","h","o","o","t","i","n","g">>, <<"_","s","h">>>>, <<<<"_","p","a","s","s","i","n","g">>, <<"_","p","a","s","s">>>>,
       <<<<"_","p","a","s","s","_","t","y","p","e","s">>, <<"_","p","t">>>>, <<<<"_","d","e","f","e","n","s","e">>, <<"_","d","e","f">>>>,
       <<<<"_","p","o","s","s","e","s","s","i","o","n">>, <<"_","p","o","s","s">>>>, <<<<"_","m","i","s","c">>, <<"_","m","i","s","c">>>>,
       <<<<"_","g","c","a">>, <<"_","g","c","a">>>> >>

SNAKE_CASE_REPLACEMENTS ==
    << <<<<"g","_","p","l","u","s","_","a">>, <<"g","o","a","l","s","_","p","l","u","s","_","a","s","s","i","s","t","s">>>>,
       <<<<"g","_","m","i","n","u","s","_","p","k">>, <<"g","o","a","l","s","_","m","i","n","u","s","_","p","e","n","a","l","t","i","e","s">>>>,
       <<<<"n","p","x","g","_","p","l","u","s","_","x","a","g">>, <<"n","p","x","g","_","p","l","u","s","_","x","a","g">>>>,
       <<<<"g","_","p","l","u","s","_","a","_","m","i","n","u","s","_","p","k">>, <<"g","o","a","l","s","_","p","l","u","s","_","a","s","s","i","s","t","s","_","m","i","n","u","s","_","p","e","n","a","l","t","i","e","s">>>>,
       <<<<"p","e","r","_","9","0","_","m","i","n","u","t","e","s">>, <<"p","e","r","_","9","0">>>>,
       <<<<"g","c","a","_","t","y","p","e","s">>, <<"g","c","a","_","t","y","p","e","s">>>>,
       <<<<"s","c","a","_","t","y","p","e","s">>, <<"s","c","a","_","t","y","p","e","s">>>>,
       <<<<"a","e","r","i","a","l","_","d","u","e","l","s">>, <<"a","e","r","i","a","l","_","d","u","e","l","s">>>>,
       <<<<"d","e","f","_","3","r","d">>, <<"d","e","f","_","t","h","i","r","d">>>>,
       <<<<"m","i","d","_","3","r","d">>, <<"m","i","d","_","t","h","i","r","d">>>>,
       <<<<"a","t","t","_","3","r","d">>, <<"a","t","t","_","t","h","i","r","d">>>>,
       <<<<"d","e","f","_","p","e","n">>, <<"d","e","f","_","p","e","n","a","l","t","y","_","a","r","e","a">>>>,
       <<<<"a","t","t","_","p","e","n">>, <<"a","t","t","_","p","e","n","a","l","t","y","_","a","r","e","a">>>>,
       <<<<"t","a","k","e","_","m","i","n","u","s","_","o","n","s">>, <<"t","a","k","e","o","n","s">>>>,
       <<<<"t","e","a","m","_","s","u","c","c","e","s","s">>, <<"t","e","a","m","_","s","u","c","c","e","s","s">>>>,
       <<<<"m","n","_","p","e","r","_","m","p">>, <<"m","i","n","u","t","e","s","_","p","e","r","_","m","a","t","c","h">>>>,
       <<<<"m","i","n","_","p","c","t">>, <<"m","i","n","u","t","e","s","_","p","c","t">>>>,
       <<<<"m","n","_","p","e","r","_","s","t","a","r","t">>, <<"m","i","n","u","t","e","s","_","p","e","r","_","s","t","a","r","t">>>>,
       <<<<"m","n","_","p","e","r","_","s","u","b">>, <<"m","i","n","u","t","e","s","_","p","e","r","_","s","u","b">>>> >>

DUPLICATE_90S_COLUMNS ==
    {<<"9","0","s","_","s","h","o","o","t","i","n","g">>, <<"9","0","s","_","p","a","s","s","i","n","g">>, <<"9","0","s","_","p","a","s","s","_","t","y","p","e","s">>, <<"9","0","s","_","d","e","f","e","n","s","e">>,
     <<"9","0","s","_","g","c","a">>, <<"9","0","s","_","p","o","s","s","e","s","s","i","o","n">>, <<"9","0","s","_","m","i","s","c">>}

\* dict lookup on a list of (key, value) pairs: d.get(k, k)
lookup(d, k) ==
    IF \E i \in DOMAIN d : d[i][1] = k
    THEN d[CHOOSE i \in DOMAIN d : d[i][1] = k][2]
    ELSE k

(***************************************************************************)
(* The pages the fetch collaborator can return.  A table is                *)
(*   columns : the header, one tuple of level labels per column (one label *)
(*             for a flat Index, two for a MultiIndex);                    *)
(*   rows    : the data rows, each with its index label and its values in  *)
(*             the Season, Squad and Comp columns;                         *)
(*   dtype   : the dtype pandas inferred for the Season column.            *)
(***************************************************************************)
Unnamed == <<"U","n","n","a","m","e","d",":"," ","0","_","l","e","v","e","l","_","0">>

SeasonLabel(i) ==
    <<"2", "0", DigitChars[(i \div 10) + 1], DigitChars[(i % 10) + 1]>>

DataRow(i) ==
    [index |-> i - 1, Season |-> SeasonLabel(i), Squad |-> <<"A","r","s","e","n","a","l">>,
     Comp |-> <<"P","r","e","m","i","e","r"," ","L","e","a","g","u","e">>]
\* A header row repeated in the table body.
BannerRow(i) ==
    [index |-> i - 1, Season |-> <<"S","e","a","s","o","n">>, Squad |-> <<"S","q","u","a","d">>,
     Comp |-> <<"C","o","m","p">>]

DataRows(n) == [i \in 1..n |-> DataRow(i)]
RowsWithBanner(n, b) ==
    [i \in 1..n |-> IF i = b THEN BannerRow(i) ELSE DataRow(i)]

\* The identity columns every wide FBref table starts with.
IdentityHeader ==
    << <<Unnamed, <<"S","e","a","s","o","n">>>>, <<Unnamed, <<"A","g","e">>>>, <<Unnamed, <<"S","q","u","a","d">>>>,
       <<Unnamed, <<"C","o","u","n","t","r","y">>>>, <<Unnamed, <<"C","o","m","p">>>>,
       <<Unnamed, <<"L","g","R","a","n","k">>>> >>

StandardHeader ==
    IdentityHeader \o
    << <<<<"P","l","a","y","i","n","g"," ","T","i","m","e">>, <<"M","P">>>>, <<<<"P","l","a","y","i","n","g"," ","T","i","m","e">>, <<"S","t","a","r","t","s">>>>,
       <<<<"P","l","a","y","i","n","g"," ","T","i","m","e">>, <<"M","i","n">>>>, <<<<"P","e","r","f","o","r","m","a","n","c","e">>, <<"G","l","s">>>>,
       <<<<"P","e","r","f","o","r","m","a","n","c","e">>, <<"A","s","t">>>>, <<<<"P","e","r","f","o","r","m","a","n","c","e">>, <<"G","+","A">>>>,
       <<Unnamed, <<"M","a","t","c","h","e","s">>>> >>

ShootingHeader ==
    IdentityHeader \o
    << <<Unnamed, <<"9","0","s">>>>, <<<<"S","t","a","n","d","a","r","d">>, <<"G","l","s">>>>,
       <<<<"S","t","a","n","d","a","r","d">>, <<"S","h">>>>, <<<<"S","t","a","n","d","a","r","d">>, <<"S","o","T">>>>,
       <<<<"S","t","a","n","d","a","r","d">>, <<"S","o","T","%">>>>, <<<<"S","t","a","n","d","a","r","d">>, <<"P","K">>>>,
       <<Unnamed, <<"M","a","t","c","h","e","s">>>> >>

\* A shooting table with two shooting markers (sh, sot) and two standard
\* markers (gls, pk).
ShootingHeaderShort ==
    IdentityHeader \o
    << <<Unnamed, <<"9","0","s">>>>, <<<<"S","t","a","n","d","a","r","d">>, <<"G","l","s">>>>,
       <<<<"S","t","a","n","d","a","r","d">>, <<"S","h">>>>, <<<<"S","t","a","n","d","a","r","d">>, <<"S","o","T">>>>,
       <<<<"S","t","a","n","d","a","r","d">>, <<"P","K">>>>, <<Unnamed, <<"M","a","t","c","h","e","s">>>> >>

\* A possession table with one unique marker (touches).
PossessionHeaderA ==
    IdentityHeader \o
    << <<Unnamed, <<"9","0","s">>>>, <<<<"T","o","u","c","h","e","s">>, <<"T","o","u","c","h","e","s">>>>,
       <<<<"T","o","u","c","h","e","s">>, <<"D","e","f"," ","P","e","n">>>>, <<<<"T","o","u","c","h","e","s">>, <<"D","e","f"," ","3","r","d">>>>,
       <<<<"T","o","u","c","h","e","s">>, <<"M","i","d"," ","3","r","d">>>>, <<Unnamed, <<"M","a","t","c","h","e","s">>>> >>

\* A possession table with three unique markers (touches, take-ons, carries).
PossessionHeaderB ==
    IdentityHeader \o
    << <<Unnamed, <<"9","0","s">>>>, <<<<"T","o","u","c","h","e","s">>, <<"T","o","u","c","h","e","s">>>>,
       <<<<"T","o","u","c","h","e","s">>, <<"D","e","f"," ","P","e","n">>>>, <<<<"T","o","u","c","h","e","s">>, <<"A","t","t"," ","3","r","d">>>>,
       <<<<"T","a","k","e","-","O","n","s">>, <<"S","u","c","c">>>>, <<<<"C","a","r","r","i","e","s">>, <<"C","a","r","r","i","e","s">>>>,
       <<Unnamed, <<"M","a","t","c","h","e","s">>>> >>

\* A possession table with one possession marker and two miscellaneous
\* markers (recoveries, aerial duels).
PossessionHeaderC ==
    IdentityHeader \o
    << <<Unnamed, <<"9","0","s">>>>, <<<<"T","o","u","c","h","e","s">>, <<"T","o","u","c","h","e","s">>>>,
       <<<<"T","o","u","c","h","e","s">>, <<"D","e","f"," ","P","e","n">>>>, <<<<"T","o","u","c","h","e","s">>, <<"M","i","d"," ","3","r","d">>>>,
       <<<<"P","e","r","f","o","r","m","a","n","c","e">>, <<"R","e","c","o","v">>>>, <<<<"A","e","r","i","a","l"," ","D","u","e","l","s">>, <<"W","o","n","%">>>>,
       <<Unnamed, <<"M","a","t","c","h","e","s">>>> >>

PlayingTimeHeader ==
    IdentityHeader \o
    << <<<<"P","l","a","y","i","n","g"," ","T","i","m","e">>, <<"M","P">>>>, <<<<"P","l","a","y","i","n","g"," ","T","i","m","e">>, <<"M","i","n">>>>,
       <<<<"P","l","a","y","i","n","g"," ","T","i","m","e">>, <<"M","n","/","M","P">>>>, <<<<"P","l","a","y","i","n","g"," ","T","i","m","e">>, <<"M","i","n","%">>>>,
       <<<<"S","t","a","r","t","s">>, <<"S","t","a","r","t","s">>>>, <<<<"S","t","a","r","t","s">>, <<"C","o","m","p","l">>>>,
       <<<<"S","u","b","s">>, <<"S","u","b","s">>>>, <<<<"T","e","a","m"," ","S","u","c","c","e","s","s">>, <<"P","P","M">>>>,
       <<Unnamed, <<"M","a","t","c","h","e","s">>>> >>

\* A playing-time table that carries the minutes-per-start column both under
\* its group and on its own.
PlayingTimeHeaderBoth ==
    IdentityHeader \o
    << <<<<"P","l","a","y","i","n","g"," ","T","i","m","e">>, <<"M","P">>>>, <<<<"P","l","a","y","i","n","g"," ","T","i","m","e">>, <<"M","i","n","%">>>>,
       <<<<"S","t","a","r","t","s">>, <<"S","t","a","r","t","s">>>>, <<<<"S","t","a","r","t","s">>, <<"M","n","/","S","t","a","r","t">>>>,
       <<Unnamed, <<"M","n","/","S","t","a","r","t">>>>, <<Unnamed, <<"M","a","t","c","h","e","s">>>> >>

\* A miscellaneous table with a substitutions column of its own.
MiscHeader ==
    IdentityHeader \o
    << <<Unnamed, <<"9","0","s">>>>, <<<<"P","e","r","f","o","r","m","a","n","c","e">>, <<"C","r","d","Y">>>>,
       <<<<"P","e","r","f","o","r","m","a","n","c","e">>, <<"F","l","s">>>>, <<<<"P","e","r","f","o","r","m","a","n","c","e">>, <<"F","l","d">>>>,
       <<Unnamed, <<"S","u","b","s">>>>, <<<<"A","e","r","i","a","l"," ","D","u","e","l","s">>, <<"W","o","n">>>>,
       <<Unnamed, <<"M","a","t","c","h","e","s">>>> >>

\* A scoring table without an assists column.
ScoringHeader ==
    << <<Unnamed, <<"S","e","a","s","o","n">>>>, <<Unnamed, <<"S","q","u","a","d">>>>,
       <<Unnamed, <<"C","o","u","n","t","r","y">>>>, <<Unnamed, <<"C","o","m","p">>>>,
       <<<<"P","e","r","f","o","r","m","a","n","c","e">>, <<"G","l","s">>>>, <<<<"P","e","r","f","o","r","m","a","n","c","e">>, <<"G","+","A">>>>,
       <<<<"P","e","r","f","o","r","m","a","n","c","e">>, <<"P","K">>>>, <<<<"P","e","r","f","o","r","m","a","n","c","e">>, <<"P","K","a","t","t">>>>,
       <<<<"E","x","p","e","c","t","e","d">>, <<"x","G">>>>, <<<<"E","x","p","e","c","t","e","d">>, <<"n","p","x","G">>>> >>

TablePool ==
    << \* 1: standard, 12 rows of which one is a repeated header row
       [columns |-> StandardHeader, rows |-> RowsWithBanner(12, 7),
        dtype |-> "object"],
       \* 2: the four-column standard table of the spec's example, 25 rows
       [columns |-> << <<<<"S","e","a","s","o","n">>>>, <<<<"S","q","u","a","d">>>>, <<<<"G","l","s">>>>, <<<<"A","s","t">>>> >>,
        rows |-> DataRows(25), dtype |-> "object"],
       \* 3: the four-column shooting table of the spec's example, 25 rows
       [columns |-> << <<<<"S","e","a","s","o","n">>>>, <<<<"S","q","u","a","d">>>>, <<<<"S","h">>>>, <<<<"S","o","T">>>> >>,
        rows |-> DataRows(25), dtype |-> "object"],
       \* 4: shooting, 12 rows, Season parsed as integers
       [columns |-> ShootingHeader, rows |-> DataRows(12), dtype |-> "int64"],
       \* 5: a widget with the standard header and 8 rows
       [columns |-> StandardHeader, rows |-> DataRows(8), dtype |-> "object"],
       \* 6, 7: two possession tables, the second with more markers and rows
       [columns |-> PossessionHeaderA, rows |-> DataRows(12), dtype |-> "object"],
       [columns |-> PossessionHeaderB, rows |-> DataRows(20), dtype |-> "object"],
       \* 8, 9: playing time
       [columns |-> PlayingTimeHeader, rows |-> DataRows(12), dtype |-> "object"],
       [columns |-> PlayingTimeHeaderBoth, rows |-> DataRows(12),
        dtype |-> "object"],
       \* 10: miscellaneous
       [columns |-> MiscHeader, rows |-> DataRows(12), dtype |-> "object"],
       \* 11: scoring without assists
       [columns |-> ScoringHeader, rows |-> DataRows(12), dtype |-> "object"],
       \* 12: possession with recoveries and aerial duels
       [columns |-> PossessionHeaderC, rows |-> DataRows(12),
        dtype |-> "object"],
       \* 13: shooting with as many standard markers as shooting markers
       [columns |-> ShootingHeaderShort, rows |-> DataRows(12),
        dtype |-> "object"] >>

TableIds == DOMAIN TablePool

\* Every page of at most MaxTables tables: a list of table ids.
RECURSIVE PagesOfLen(_)
PagesOfLen(n) ==
    IF n = 0 THEN {<<>>}
    ELSE {Append(p, t) : p \in PagesOfLen(n - 1), t \in TableIds}
Pages == UNION {PagesOfLen(n) : n \in 0..MaxTables}

(***************************************************************************)
(* core/table_detector.py                                                  *)
(***************************************************************************)
\* str(table.columns): the labels of every level, quoted and separated.
\* (pandas pads the tuples of a MultiIndex with spaces and line breaks; a
\* single space stands for the padding.)
ColumnRepr(col) ==
    IF Len(col) = 1 THEN <<"'">> \o col[1] \o <<"'">>
    ELSE <<"(">> \o
         join(<<","," ">>, [k \in 1..Len(col) |-> <<"'">> \o col[k] \o <<"'">>])
         \o <<")">>
IndexRepr(columns) ==
    IF Len(columns) > 0 /\ Len(columns[1]) > 1
    THEN <<"M","u","l","t","i","I","n","d","e","x","(","[">>
         \o join(<<","," ">>, [k \in 1..Len(columns) |-> ColumnRepr(columns[k])])
         \o <<"]",","," ",")">>
    ELSE <<"I","n","d","e","x","(","[">>
         \o join(<<","," ">>, [k \in 1..Len(columns) |-> ColumnRepr(columns[k])])
         \o <<"]",","," ","d","t","y","p","e","=","'","o","b","j","e","c","t","'",")">>

\* cols_str = str(table.columns).lower(), once per table of the pool.
cols_str == [t \in TableIds |-> lower(IndexRepr(TablePool[t].columns))]

AnyIn(markers, s) == \E i \in DOMAIN markers : In(markers[i], s)

\* The chain with the 'misc' branch tested first and the 'standard' branch
\* after it.
misc_tested_first(s) ==
    IF AnyIn(<<<<"m","i","s","c">>, <<"f","l","s">>, <<"f","l","d">>, <<"o","f","f">>, <<"c","r","s">>, <<"t","k","l","w">>,
               <<"p","k","w","o","n">>, <<"p","k","c","o","n">>, <<"o","g">>, <<"r","e","c","o","v">>, <<"a","e","r","i","a","l">>,
               <<"w","o","n">>, <<"l","o","s","t">>>>, s)
    THEN "misc"
    ELSE IF (In(<<"s","e","a","s","o","n">>, s) \/ In(<<"s","q","u","a","d">>, s))
            /\ In(<<"g","l","s">>, s) /\ In(<<"a","s","t">>, s)
    THEN "standard"
    ELSE "none"

\* The if/elif chain of identify_field_player_tables: the first category
\* whose predicate the header text satisfies, or "none".
FirstMatchOf(s) ==
    IF (In(<<"s","e","a","s","o","n">>, s) \/ In(<<"s","q","u","a","d">>, s)) /\ In(<<"g","l","s">>, s) /\ In(<<"a","s","t">>, s)
    THEN "standard"
    ELSE IF In(<<"s","h","o","o","t","i","n","g">>, s) \/ (In(<<"s","h">>, s) /\ In(<<"s","o","t">>, s))
    THEN "shooting"
    ELSE IF In(<<"p","a","s","s","i","n","g">>, s) \/ (In(<<"c","m","p">>, s) /\ In(<<"a","t","t">>, s))
    THEN "passing"
    ELSE IF In(<<"p","a","s","s"," ","t","y","p","e","s">>, s) \/ In(<<"l","i","v","e">>, s)
    THEN "pass_types"
    ELSE IF AnyIn(<<<<"g","c","a">>, <<"s","c","a">>, <<"g","o","a","l"," ","c","r","e","a","t","i","o","n">>, <<"s","h","o","t"," ","c","r","e","a","t","i","o","n">>,
                    <<"g","c","a","9","0">>, <<"s","c","a","9","0">>, <<"p","a","s","s","l","i","v","e">>, <<"p","a","s","s","d","e","a","d">>>>, s)
    THEN "gca"
    ELSE IF In(<<"d","e","f","e","n","s","e">>, s) \/ In(<<"t","k","l">>, s)
    THEN "defense"
    ELSE IF AnyIn(<<<<"m","n","/","m","p">>, <<"m","i","n","%">>, <<"t","e","a","m"," ","s","u","c","c","e","s","s">>, <<"p","p","m">>>>, s)
            /\ ~In(<<"t","o","u","c","h","e","s">>, s)
    THEN "playing_time"
    ELSE IF In(<<"t","o","u","c","h","e","s">>, s)
            /\ AnyIn(<<<<"d","e","f"," ","p","e","n">>, <<"d","e","f"," ","3","r","d">>, <<"m","i","d"," ","3","r","d">>, <<"a","t","t"," ","3","r","d">>,
                       <<"d","r","i","b","b","l","e","s">>>>, s)
    THEN "possession"
    ELSE IF AnyIn(<<<<"m","i","s","c">>, <<"f","l","s">>, <<"f","l","d">>, <<"o","f","f">>, <<"c","r","s">>, <<"t","k","l","w">>,
                    <<"p","k","w","o","n">>, <<"p","k","c","o","n">>, <<"o","g">>, <<"r","e","c","o","v">>, <<"a","e","r","i","a","l">>,
                    <<"w","o","n">>, <<"l","o","s","t">>>>, s)
    THEN "misc"
    ELSE "none"
FirstMatch == [t \in TableIds |-> FirstMatchOf(cols_str[t])]

\* The predicate of the 'possession' branch alone.
possession_predicate(s) ==
    In(<<"t","o","u","c","h","e","s">>, s)
    /\ AnyIn(<<<<"d","e","f"," ","p","e","n">>, <<"d","e","f"," ","3","r","d">>, <<"m","i","d"," ","3","r","d">>, <<"a","t","t"," ","3","r","d">>,
               <<"d","r","i","b","b","l","e","s">>>>, s)

\* len(table), len(table.columns)
NumRows(t) == Len(TablePool[t].rows)
NumCols(t) == Len(TablePool[t].columns)

\* The size gate of the primary pass.
MIN_ROWS == 10
MIN_COLS == 10
PrimaryEligible(t) == ~(NumRows(t) < MIN_ROWS \/ NumCols(t) < MIN_COLS)

\* key_tables is a Python dict: a list of entries in insertion order, each
\* [name, pos, table] with pos the 0-based position on the page.
HasKey(kt, name) == \E i \in DOMAIN kt : kt[i].name = name
KeysOf(kt) == {kt[i].name : i \in DOMAIN kt}
ValueOf(kt, name) == kt[CHOOSE i \in DOMAIN kt : kt[i].name = name]
DelKey(kt, name) == SelectSeq(kt, LAMBDA e : e.name # name)
\* key_tables[name] = (pos, table)
SetKey(kt, e) ==
    IF HasKey(kt, e.name)
    THEN [i \in 1..Len(kt) |-> IF kt[i].name = e.name THEN e ELSE kt[i]]
    ELSE Append(kt, e)

RECURSIVE IdentifyFrom(_, _, _)
IdentifyFrom(page, i, kt) ==
    IF i > Len(page) THEN kt
    ELSE LET t == page[i]
             c == FirstMatch[t]
         IN IF PrimaryEligible(t) /\ c # "none" /\ ~HasKey(kt, c)
            THEN IdentifyFrom(page, i + 1,
                              Append(kt, [name |-> c, pos |-> i - 1, table |-> t]))
            ELSE IdentifyFrom(page, i + 1, kt)
\* The primary pass with a later match replacing an earlier one of the
\* same category.
RECURSIVE IdentifyLastFrom(_, _, _)
IdentifyLastFrom(page, i, kt) ==
    IF i > Len(page) THEN kt
    ELSE LET t == page[i]
             c == FirstMatch[t]
         IN IF PrimaryEligible(t) /\ c # "none"
            THEN IdentifyLastFrom(page, i + 1,
                     SetKey(kt, [name |-> c, pos |-> i - 1, table |-> t]))
            ELSE IdentifyLastFrom(page, i + 1, kt)
identify_last_found(page) == IdentifyLastFrom(page, 1, <<>>)
identify_field_player_tables(page) == IdentifyFrom(page, 1, <<>>)

\* marker_count = sum(1 for marker in markers if marker in cols_str)
MarkerCountOf(t, markers) == CountIf(markers, LAMBDA m : In(m, cols_str[t]))
marker_count ==
    [t \in TableIds |-> [c \in Categories |-> MarkerCountOf(t, UNIQUE_MARKERS[c])]]

MIN_MARKERS == 2
\* The eligibility with the row gate left out.
FallbackEligibleAnySize(t) == TRUE
\* The size gate of the fallback pass: if len(table) < 10: continue
FallbackEligible(t) == ~(NumRows(t) < MIN_ROWS)
\* The candidates of find_tables_by_unique_markers for one category: the
\* page positions (from 1) of tables of at least 10 rows with 2 markers.
Candidates(page, name) ==
    {i \in DOMAIN page :
        FallbackEligible(page[i]) /\ marker_count[page[i]][name] >= MIN_MARKERS}
\* The comparison made on the rows first and the markers second.
BetterByRows(page, i, j, name) ==
    \/ NumRows(page[i]) > NumRows(page[j])
    \/ /\ NumRows(page[i]) = NumRows(page[j])
       /\ marker_count[page[i]][name] > marker_count[page[j]][name]
\* max(candidates, key=lambda x: (x[2], x[3])): the first maximal candidate.
Better(page, i, j, name) ==
    \/ marker_count[page[i]][name] > marker_count[page[j]][name]
    \/ /\ marker_count[page[i]][name] = marker_count[page[j]][name]
       /\ NumRows(page[i]) > NumRows(page[j])
BestCandidate(page, name) ==
    CHOOSE i \in Candidates(page, name) :
        \A j \in Candidates(page, name) :
            j # i => (Better(page, i, j, name)
                      \/ (~Better(page, j, i, name) /\ i < j))

RECURSIVE FindFrom(_, _, _)
FindFrom(page, missing, k) ==
    IF k > Len(missing) THEN <<>>
    ELSE LET name == missing[k]
         IN (IF Candidates(page, name) # {}
             THEN LET b == BestCandidate(page, name)
                  IN <<[name |-> name, pos |-> b - 1, table |-> page[b]]>>
             ELSE <<>>)
            \o FindFrom(page, missing, k + 1)
find_tables_by_unique_markers(page, missing) == FindFrom(page, missing, 1)

\* score_table_quality.  The size bonus min(len(table) / 50 * 5, 10) is a
\* fraction, so the score is computed in units of 1/50 point.
MARKER_POINTS == 20
EXACT_BONUS == 15
SIZE_DIVISOR == 50
SIZE_FACTOR == 5
SIZE_BONUS_CAP == 10
SMALL_TABLE_ROWS == 15
SMALL_TABLE_PENALTY == 20
SCORE_CAP == 100
Min(a, b) == IF a < b THEN a ELSE b
ExactBonus(t, table_type) ==
    IF table_type = "gca" /\ (In(<<"g","c","a">>, cols_str[t]) \/ In(<<"s","c","a">>, cols_str[t]))
    THEN EXACT_BONUS
    ELSE IF table_type = "pass_types" /\ In(<<"p","a","s","s"," ","t","y","p","e","s">>, cols_str[t])
    THEN EXACT_BONUS
    ELSE IF table_type = "possession" /\ In(<<"p","o","s","s","e","s","s","i","o","n">>, cols_str[t])
    THEN EXACT_BONUS
    ELSE 0
score_table_quality(t, table_type) ==
    Min(SIZE_DIVISOR * (marker_count[t][table_type] * MARKER_POINTS
                        + ExactBonus(t, table_type))
        + Min(NumRows(t) * SIZE_FACTOR, SIZE_BONUS_CAP * SIZE_DIVISOR)
        - (IF NumRows(t) < SMALL_TABLE_ROWS
           THEN SIZE_DIVISOR * SMALL_TABLE_PENALTY ELSE 0),
        SIZE_DIVISOR * SCORE_CAP)

\* The conflict decided for the new name whatever the scores.
new_name_wins(existing_name, existing_table, new_name, new_table) ==
    [chosen |-> new_name, rejected |-> existing_name]

\* resolve_table_conflict: the name that keeps the position.
resolve_table_conflict(existing_name, existing_table, new_name, new_table) ==
    IF score_table_quality(new_table, new_name)
         > score_table_quality(existing_table, existing_name)
    THEN [chosen |-> new_name, rejected |-> existing_name]
    ELSE [chosen |-> existing_name, rejected |-> new_name]

(***************************************************************************)
(* core/column_processor.py and core/data_cleaner.py                       *)
(***************************************************************************)
\* process_multiindex_columns: the flattened name of every column.
FlattenColumn(col) ==
    LET kept == SelectSeq(col, LAMBDA c : c # <<"n","a","n">> /\ ~IsBlank(c))
    IN strip_(collapse_underscores(join(<<"_">>, kept)))
process_multiindex_columns(columns) ==
    IF Len(columns) > 0 /\ Len(columns[1]) > 1
    THEN [k \in 1..Len(columns) |-> FlattenColumn(columns[k])]
    ELSE [k \in 1..Len(columns) |-> columns[k][1]]

\* fix_column_names
FixColumnName(col_str) ==
    IF startswith(col_str, <<"U","n","n","a","m","e","d",":">>) /\ In(<<"_","l","e","v","e","l","_","0","_">>, col_str)
    THEN split_last(col_str, "_")
    ELSE col_str
fix_column_names(names) == [k \in 1..Len(names) |-> FixColumnName(names[k])]

\* remove_playing_time_duplicates
IsPlayingTimeColumn(col_str) == MatchesPlayingTimePattern(lower(col_str))
\* The step leaving every column in place.
keep_playing_time_columns(names, table_name) == names
remove_playing_time_duplicates(names, table_name) ==
    IF table_name = "playing_time" THEN names
    ELSE SelectSeq(names, LAMBDA c : ~IsPlayingTimeColumn(c))

\* A missing value.
NaN == <<"n","a","n">>
\* The value a data row holds in a column.
CellValue(row, col) ==
    IF col = <<"S","e","a","s","o","n">> THEN row.Season
    ELSE IF col = <<"S","q","u","a","d">> THEN row.Squad
    ELSE IF col = <<"C","o","m","p">> THEN row.Comp
    ELSE <<"0">>

\* clean_dataframe on a table given as column names and rows.
FirstWith(names, P(_)) ==
    names[CHOOSE i \in DOMAIN names :
              P(names[i]) /\ \A j \in 1..(i - 1) : ~P(names[j])]
IsMatchesColumn(c) == In(<<"M","a","t","c","h","e","s">>, c) \/ In(<<"m","a","t","c","h","e","s">>, lower(c))
IsSeasonColumn(c) == In(<<"S","e","a","s","o","n">>, c)
IsCompColumn(c) == In(<<"C","o","m","p">>, c) /\ ~In(<<"C","o","m","p","e","t","i","t","i","o","n">>, c)
IsAggregateSeason(v) ==
    AnyIn(<<<<"S","e","a","s","o","n">>, <<"S","e","a","s","o","n","s">>, <<"C","l","u","b">>, <<"C","l","u","b","s">>, <<"T","o","t","a","l">>,
            <<"L","e","a","g","u","e">>>>, v)
IsHeaderComp(v) ==
    AnyIn(<<<<"C","o","m","p">>, <<"C","o","m","p","e","t","i","t","i","o","n">>, <<"C","o","u","n","t","r","y">>, <<"S","q","u","a","d">>, <<"M","P">>,
            <<"M","i","n">>>>, v)
clean_dataframe(df) ==
    IF Len(df.rows) = 0 \/ Len(df.columns) = 0 THEN df
    ELSE
    LET cols == SelectSeq(df.columns, LAMBDA c : ~IsMatchesColumn(c.name))
        names == [k \in 1..Len(cols) |-> cols[k].name]
        rows1 ==
            IF \E k \in DOMAIN names : IsSeasonColumn(names[k])
            THEN LET season_col == FirstWith(names, IsSeasonColumn)
                 IN SelectSeq(df.rows,
                        LAMBDA r : ~IsAggregateSeason(CellValue(r, season_col)))
            ELSE df.rows
        rows2 ==
            IF \E k \in DOMAIN names : IsCompColumn(names[k])
            THEN LET comp_col == FirstWith(names, IsCompColumn)
                 IN SelectSeq(rows1,
                        LAMBDA r : ~IsHeaderComp(CellValue(r, comp_col)))
            ELSE rows1
        \* df.dropna(how='all')
        rows3 ==
            SelectSeq(rows2,
                LAMBDA r : \E k \in DOMAIN names : CellValue(r, names[k]) # NaN)
    IN [df EXCEPT !.columns = cols, !.rows = rows3]

\* remove_duplicate_columns: drop the columns whose name contains the
\* suffix, then every column named like an earlier one
\* (df.loc[:, ~df.columns.duplicated()]).
RECURSIVE DropDuplicatedFrom(_, _)
DropDuplicatedFrom(cols, i) ==
    IF i > Len(cols) THEN <<>>
    ELSE (IF \E j \in 1..(i - 1) : cols[j].name = cols[i].name
          THEN <<>> ELSE <<cols[i]>>)
         \o DropDuplicatedFrom(cols, i + 1)
drop_duplicated(cols) == DropDuplicatedFrom(cols, 1)
remove_duplicate_columns(df, suffix) ==
    [df EXCEPT !.columns =
        drop_duplicated(SelectSeq(df.columns, LAMBDA c : ~In(suffix, c.name)))]

\* convert_to_snake_case
RECURSIVE ApplyReplacements(_, _, _)
ApplyReplacements(col, d, i) ==
    IF i > Len(d) THEN col
    ELSE IF In(d[i][1], col)
         THEN ApplyReplacements(replace(col, d[i][1], d[i][2]), d, i + 1)
         ELSE ApplyReplacements(col, d, i + 1)
SymbolReplacements ==
    << <<<<"%">>, <<"_","p","c","t">>>>, <<<<"+">>, <<"_","p","l","u","s","_">>>>, <<<<"-">>, <<"_","m","i","n","u","s","_">>>>,
       <<<<"/">>, <<"_","p","e","r","_">>>>, <<<<"(">>, <<"_">>>>, <<<<")">>, <<"_">>>>,
       <<<<" ">>, <<"_">>>>, <<<<"&">>, <<"_","a","n","d","_">>>>, <<<<"#">>, <<"_","n","u","m","_">>>> >>
convert_symbols(column_name) ==
    lower(strip_(collapse_underscores(
        ApplyReplacements(column_name, SymbolReplacements, 1))))
convert_to_snake_case(column_name) ==
    ApplyReplacements(convert_symbols(column_name), SNAKE_CASE_REPLACEMENTS, 1)

\* Step 4 of apply_field_player_renames: the first suffix of the map the
\* name ends with is abbreviated with str.replace.
RECURSIVE ShortenSuffixFrom(_, _)
ShortenSuffixFrom(col, i) ==
    IF i > Len(FIELD_PLAYER_SUFFIX_MAP) THEN col
    ELSE IF endswith(col, FIELD_PLAYER_SUFFIX_MAP[i][1])
         THEN replace(col, FIELD_PLAYER_SUFFIX_MAP[i][1],
                      FIELD_PLAYER_SUFFIX_MAP[i][2])
         ELSE ShortenSuffixFrom(col, i + 1)
shorten_suffix(col) == ShortenSuffixFrom(col, 1)

\* The name apply_field_player_renames gives a column it keeps.
FieldPlayerRename(col) ==
    convert_to_snake_case(
        shorten_suffix(
            lookup(FIELD_PLAYER_PLAYING_TIME_RENAMES,
                   lookup(FIELD_PLAYER_BASIC_RENAMES, col))))
apply_field_player_renames(df) ==
    LET kept == SelectSeq(df.columns,
                          LAMBDA c : c.name \notin DUPLICATE_90S_COLUMNS)
    IN [df EXCEPT !.columns =
           [k \in 1..Len(kept) |->
               [kept[k] EXCEPT !.name = FieldPlayerRename(kept[k].name)]]]

(***************************************************************************)
(* parsers/base_parser.py                                                  *)
(***************************************************************************)
\* FieldPlayerParser.get_no_prefix_tables
no_prefix_tables == {"standard"}

\* is_key = any(key in col_str for key in KEY_COLUMNS_WITH_MP)
is_key(col_str) ==
    \E i \in DOMAIN KEY_COLUMNS_WITH_MP : In(KEY_COLUMNS_WITH_MP[i], col_str)

\* process_table_columns: flatten, fix, strip the Playing Time columns,
\* suffix, clean.  Every column keeps the category it comes from (origin)
\* and the name it had before the suffix (label).
\* The name without the category suffix.
UnprefixedName(col_str, table_name) == col_str
PrefixedName(col_str, table_name) ==
    IF is_key(col_str) \/ table_name \in no_prefix_tables
    THEN col_str
    ELSE col_str \o <<"_">> \o CategoryStr[table_name]
process_table_columns(t, table_name) ==
    LET names == remove_playing_time_duplicates(
                     fix_column_names(
                         process_multiindex_columns(TablePool[t].columns)),
                     table_name)
    IN clean_dataframe(
           [columns |-> [k \in 1..Len(names) |->
                            [name |-> PrefixedName(names[k], table_name),
                             origin |-> table_name, label |-> names[k]]],
            rows |-> TablePool[t].rows,
            dtype |-> TablePool[t].dtype])

\* merge_tables.  processed_tables is a Python dict: a list of entries
\* [name, df] in insertion order.
ColumnNames(df) == [k \in 1..Len(df.columns) |-> df.columns[k].name]
HasColumn(df, name) == \E k \in DOMAIN df.columns : df.columns[k].name = name
TimesColumn(df, name) ==
    Cardinality({k \in DOMAIN df.columns : df.columns[k].name = name})

IsMergeKey(col) == AnyIn(<<<<"s","e","a","s","o","n">>, <<"s","q","u","a","d">>, <<"c","o","m","p">>>>, lower(col))
MergeKeysOf(df) == SelectSeq(ColumnNames(df), IsMergeKey)
AvailableKeys(merge_keys, left, right) ==
    SelectSeq(merge_keys, LAMBDA k : HasColumn(left, k) /\ HasColumn(right, k))

\* The identity values of a row of the joined frame: the left frame's value
\* where the left frame has the column, else the right frame's.
JoinedRow(left, right, l, r, i) ==
    [index |-> i,
     Season |-> IF HasColumn(left, <<"S","e","a","s","o","n">>) THEN l.Season ELSE r.Season,
     Squad |-> IF HasColumn(left, <<"S","q","u","a","d">>) THEN l.Squad ELSE r.Squad,
     Comp |-> IF HasColumn(left, <<"C","o","m","p">>) THEN l.Comp ELSE r.Comp]
MissingRow == [index |-> 0, Season |-> NaN, Squad |-> NaN, Comp |-> NaN]

\* pd.merge raises when a key label is not unique in a frame, or when the
\* key columns of the two frames have different dtypes.
MergeRaises(left, right, keys) ==
    \/ \E i \in DOMAIN keys :
          TimesColumn(left, keys[i]) > 1 \/ TimesColumn(right, keys[i]) > 1
    \/ /\ \E i \in DOMAIN keys : keys[i] = <<"S","e","a","s","o","n">>
       /\ left.dtype # right.dtype

\* pd.merge(left, right, on=keys, how='left', suffixes=('', suffix))
RowMatches(l, r, keys) ==
    \A i \in DOMAIN keys : CellValue(l, keys[i]) = CellValue(r, keys[i])
RECURSIVE LeftJoinRows(_, _, _, _)
LeftJoinRows(left, right, keys, i) ==
    IF i > Len(left.rows) THEN <<>>
    ELSE LET l == left.rows[i]
             ms == SelectSeq(right.rows, LAMBDA r : RowMatches(l, r, keys))
         IN (IF Len(ms) = 0 THEN <<JoinedRow(left, right, l, MissingRow, 0)>>
             ELSE [k \in 1..Len(ms) |-> JoinedRow(left, right, l, ms[k], 0)])
            \o LeftJoinRows(left, right, keys, i + 1)
Reindex(rows) == [k \in 1..Len(rows) |-> [rows[k] EXCEPT !.index = k - 1]]
pd_merge_left(left, right, keys, suffix) ==
    LET on == Range(keys)
        rcols == SelectSeq(right.columns, LAMBDA c : c.name \notin on)
    IN [columns |->
            left.columns \o
            [k \in 1..Len(rcols) |->
                IF HasColumn(left, rcols[k].name)
                THEN [rcols[k] EXCEPT !.name = rcols[k].name \o suffix]
                ELSE rcols[k]],
        rows |-> Reindex(LeftJoinRows(left, right, keys, 1)),
        dtype |-> left.dtype]

\* pd.concat([left, right], axis=1): the columns side by side, the rows
\* aligned on the union of the index labels.
RowAt(df, idx) ==
    IF \E k \in DOMAIN df.rows : df.rows[k].index = idx
    THEN df.rows[CHOOSE k \in DOMAIN df.rows : df.rows[k].index = idx]
    ELSE MissingRow
RECURSIVE SortedSeq(_)
SortedSeq(S) ==
    IF S = {} THEN <<>>
    ELSE LET m == CHOOSE x \in S : \A y \in S : x <= y
         IN <<m>> \o SortedSeq(S \ {m})
pd_concat_columns(left, right) ==
    LET labels == SortedSeq({left.rows[k].index : k \in DOMAIN left.rows}
                            \cup {right.rows[k].index : k \in DOMAIN right.rows})
    IN [columns |-> left.columns \o right.columns,
        rows |-> [k \in 1..Len(labels) |->
                    JoinedRow(left, right, RowAt(left, labels[k]),
                              RowAt(right, labels[k]), labels[k])],
        dtype |-> left.dtype]

\* One pass of the loop of merge_tables over a table that is not skipped.
MergeOne(merged_df, table_df, table_name, merge_keys) ==
    IF Len(merge_keys) > 0
    THEN LET available_keys == AvailableKeys(merge_keys, merged_df, table_df)
         IN IF Len(available_keys) > 0
            THEN IF MergeRaises(merged_df, table_df, available_keys)
                 THEN pd_concat_columns(merged_df, table_df)
                 ELSE pd_merge_left(merged_df, table_df, available_keys,
                                    <<"_","d","u","p","_">> \o CategoryStr[table_name])
            ELSE pd_concat_columns(merged_df, table_df)
    ELSE pd_concat_columns(merged_df, table_df)

\* The tables the loop of merge_tables skips.
SkippedInMerge(processed_tables, table_name) ==
    table_name = "standard" \/ table_name = processed_tables[1].name

RECURSIVE MergeFrom(_, _, _, _)
MergeFrom(processed_tables, i, merged_df, merge_keys) ==
    IF i > Len(processed_tables) THEN merged_df
    ELSE IF SkippedInMerge(processed_tables, processed_tables[i].name)
         THEN MergeFrom(processed_tables, i + 1, merged_df, merge_keys)
         ELSE MergeFrom(processed_tables, i + 1,
                        MergeOne(merged_df, processed_tables[i].df,
                                 processed_tables[i].name, merge_keys),
                        merge_keys)
BaseTable(processed_tables) ==
    IF \E i \in DOMAIN processed_tables : processed_tables[i].name = "standard"
    THEN processed_tables[CHOOSE i \in DOMAIN processed_tables :
                              processed_tables[i].name = "standard"].df
    ELSE processed_tables[1].df
merge_tables(processed_tables) ==
    MergeFrom(processed_tables, 1, BaseTable(processed_tables),
              MergeKeysOf(BaseTable(processed_tables)))

\* final_cleanup: the duplicate columns go; clean_country_column and
\* clean_competition_column rewrite cell values of columns named 'country'
\* and 'competition', which no frame has before the renames.
final_cleanup(df) == remove_duplicate_columns(df, <<"_","d","u","p","_">>)

(***************************************************************************)
(* parsers/field_player.py: FieldPlayerParser.parse_player                 *)
(***************************************************************************)
\* The frame of a call that has not produced one.
NoFrame == [columns |-> <<>>, rows |-> <<>>, dtype |-> "none"]

VARIABLES
    pc,               \* the stage parse_player is about to run
    all_page_tables,  \* the tables extracted from the page
    key_tables,       \* the classification: name -> (pos, table)
    rejected_tables,  \* the names that lost a position conflict
    found_by_markers, \* what find_tables_by_unique_markers returned
    loop_idx,         \* the entries the running loop of parse_player has done
    processed_tables, \* name -> processed frame
    merged_df,        \* the result of merge_tables
    final_df,         \* the frame after final_cleanup and the renames
    result,           \* what parse_player returns
    csv_file,         \* the frame save_to_csv wrote
    column_name,      \* normalization: the header label given
    normalized,       \* normalization: the outputs of successive calls
    cache_file,       \* league cache: the JSON file
    now,              \* league cache: the clock, in hours
    loaded,           \* league cache: what load_cached_metadata returned
    discovered,       \* league cache: the last call of discover_all_leagues
    task_state,       \* batch task: none, running or success
    team_batch,       \* batch task: the team_info dicts given to the task
    team_idx,         \* batch task: the position of the loop over the batch
    results,          \* batch task: the result records appended so far
    tpc,              \* team call: where parse_team_all_players_universal is
    team_result,      \* team call: the counts of the results dict
    player_links,     \* squad driver: the links of the roster being parsed
    link_idx,         \* squad driver: the position of the loop over the links
    existing_files,   \* squad driver: the listing taken before the loop
    constants_dirs,   \* the two DEFAULT_OUTPUT_DIR_* attributes of constants
    dirs,             \* file system: the directories that exist
    files,            \* file system: the files that exist
    start_files,      \* file system: the files when the team call started
    fetch_log,        \* the player pages fetched during the team call
    write_log,        \* the files written during the team call
    runs,             \* the number of batch tasks started
    running,          \* scheduler: the task instances that are running
    finished,         \* scheduler: the task instances that succeeded
    xcom,             \* scheduler: the values the finished tasks returned
    scoring,          \* score_table_quality: the arguments and the value
    cleaning,         \* clean_dataframe: the frame given and the frame returned
    request_times,    \* scraper: the deque of request timestamps, as ages
    http_sent,        \* scraper: the ages of the requests of the last minute
    attempt_number,   \* scraper: the attempt of the retry decorator
    spc               \* scraper: the position inside fetch_page

loop_vars == <<found_by_markers, loop_idx>>
parse_vars ==
    <<pc, all_page_tables, key_tables, rejected_tables, processed_tables,
      merged_df, final_df, result, csv_file, loop_vars>>
norm_vars == <<column_name, normalized>>
cache_vars == <<cache_file, now, loaded, discovered>>
squad_vars ==
    <<task_state, team_batch, team_idx, results, tpc, team_result,
      player_links, link_idx, existing_files, constants_dirs, dirs, files,
      start_files, fetch_log, write_log, runs>>
dag_vars == <<running, finished, xcom>>
scraper_vars == <<request_times, http_sent, attempt_number, spc>>
tool_vars == <<scoring, cleaning, scraper_vars>>
run_vars == <<squad_vars, dag_vars, tool_vars>>
vars == <<parse_vars, norm_vars, cache_vars, run_vars>>

(***************************************************************************)
(* constants.py: the default output directories.  A directory is the       *)
(* sequence of its path components.                                        *)
(***************************************************************************)
DEFAULT_OUTPUT_DIR_FIELD_PLAYERS ==
    <<<<"/","r","o","o","t","/","d","a","t","a","_","p","l","a","t","f","o","r","m","/","t","e","s","t","_","a","r","s","e","n","a","l","_","p","l","a","y","e","r","s">>>>
DEFAULT_OUTPUT_DIR_GOALKEEPERS ==
    <<<<"/","r","o","o","t","/","d","a","t","a","_","p","l","a","t","f","o","r","m","/","t","e","s","t","_","a","r","s","e","n","a","l","_","g","o","a","l","k","e","e","p","e","r","s">>>>

\* The counts of a results dict before any parser has run.
NoCounts ==
    [field_players_count |-> 0, goalkeepers_count |-> 0,
     field_players_failed |-> 0, goalkeepers_failed |-> 0,
     skipped_players |-> 0]

\* The summary report_final_results prints, before it has run.
NoFinalReport ==
    [total_leagues |-> 0, total_skipped |-> 0, total_teams |-> 0,
     total_players |-> 0, total_errors |-> 0, skipped_leagues |-> <<>>]
\* No task of a DAG run has returned a value.
NoXcom ==
    [leagues |-> <<>>, all_teams |-> <<>>, flattened_teams |-> <<>>,
     team_batches |-> <<>>, batch_results |-> <<>>, team_results |-> <<>>,
     grouped |-> <<>>, league_reports_data |-> <<>>, league_reports |-> <<>>,
     final_report |-> NoFinalReport, squads |-> <<>>]
\* No DAG run has been triggered.
DagIdle ==
    /\ running = {}
    /\ finished = {}
    /\ xcom = NoXcom

\* score_table_quality has not been called.
NoScoring == [table |-> 0, table_type |-> "none", done |-> FALSE, score |-> 0]
\* discover_all_leagues has not been called.
NoDiscovery ==
    [outcome |-> "none", use_cache |-> FALSE, tiers |-> {}, gender |-> "M",
     max_age_hours |-> 0, filtered |-> 0, leagues |-> <<>>]
\* clean_dataframe has not been called.
NoCleaning == [df |-> NoFrame, done |-> FALSE, out |-> NoFrame]
\* FBrefScraper() has just been constructed.
ScraperIdle ==
    /\ request_times = <<>>
    /\ http_sent = <<>>
    /\ attempt_number = 0
    /\ spc = "idle"
ToolIdle == scoring = NoScoring /\ cleaning = NoCleaning /\ ScraperIdle

\* No batch task has started; the constants module is as imported.
SquadIdle ==
    /\ task_state = "none"
    /\ team_batch = <<>>
    /\ team_idx = 0
    /\ results = <<>>
    /\ tpc = "idle"
    /\ team_result = NoCounts
    /\ player_links = <<>>
    /\ link_idx = 0
    /\ existing_files = {}
    /\ constants_dirs = [field |-> DEFAULT_OUTPUT_DIR_FIELD_PLAYERS,
                         gk |-> DEFAULT_OUTPUT_DIR_GOALKEEPERS]
    /\ dirs = {}
    /\ files = {}
    /\ start_files = {}
    /\ fetch_log = {}
    /\ write_log = {}
    /\ runs = 0

\* The test of a position that finds every position free.
position_always_free(kt, pos) == FALSE
PosOccupied(kt, pos) == \E i \in DOMAIN kt : kt[i].pos = pos
\* The first classified name at a position (the conflict_name loop).
ConflictEntry(kt, pos) ==
    kt[CHOOSE i \in DOMAIN kt :
           kt[i].pos = pos /\ \A j \in 1..(i - 1) : kt[j].pos # pos]
MissingTables(kt) == SelectSeq(expected_tables, LAMBDA t : ~HasKey(kt, t))

\* One pass of the loop over found_by_markers: the classification and
\* the rejected names after entry e has been handled.
add_found_table(e, kt, rejected) ==
    IF PosOccupied(kt, e.pos)
    THEN LET c == ConflictEntry(kt, e.pos)
             r == resolve_table_conflict(c.name, c.table, e.name, e.table)
         IN IF r.chosen = e.name
            THEN [key_tables |-> SetKey(DelKey(kt, c.name), e),
                  rejected_tables |-> Append(rejected, r.rejected)]
            ELSE [key_tables |-> kt,
                  rejected_tables |-> Append(rejected, r.rejected)]
    ELSE [key_tables |-> SetKey(kt, e), rejected_tables |-> rejected]

\* One pass of the loop over rejected_tables: the rejected name is searched
\* again and added when the position found is free.
research_rejected(page, rejected_table, kt) ==
    LET alts == find_tables_by_unique_markers(page, <<rejected_table>>)
    IN IF Len(alts) > 0 /\ ~PosOccupied(kt, alts[1].pos)
       THEN SetKey(kt, alts[1])
       ELSE kt

\* The check of the mandatory table made on the classification being
\* non-empty instead.
any_table_found(kt) == Len(kt) > 0

\* 'standard' in key_tables
standard_found(kt) == HasKey(kt, "standard")

Init ==
    /\ pc = "fetch"
    /\ all_page_tables = <<>>
    /\ key_tables = <<>>
    /\ rejected_tables = <<>>
    /\ found_by_markers = <<>>
    /\ loop_idx = 0
    /\ processed_tables = <<>>
    /\ merged_df = NoFrame
    /\ final_df = NoFrame
    /\ result = "pending"
    /\ csv_file = NoFrame
    /\ column_name = <<>>
    /\ normalized = <<>>
    /\ cache_file = [exists |-> FALSE, cached_at |-> 0, leagues |-> <<>>]
    /\ now = 1
    /\ loaded = [value |-> "None", leagues |-> <<>>]
    /\ discovered = NoDiscovery
    /\ SquadIdle
    /\ DagIdle
    /\ ToolIdle

\* fetch_page and extract_all_tables give the tables of the page.
Fetch ==
    /\ pc = "fetch"
    /\ \E page \in Pages : all_page_tables' = page
    /\ pc' = "identify"
    /\ UNCHANGED <<key_tables, rejected_tables, processed_tables, merged_df,
                   final_df, result, csv_file, loop_vars, norm_vars, cache_vars, run_vars>>

\* fetch_page raises: the exception handler returns None.
FetchFails ==
    /\ pc = "fetch"
    /\ pc' = "done"
    /\ result' = "None"
    /\ UNCHANGED <<all_page_tables, key_tables, rejected_tables,
                   processed_tables, merged_df, final_df, csv_file,
                   loop_vars, norm_vars, cache_vars, run_vars>>

\* key_tables = self.identify_tables(all_page_tables)
Identify ==
    /\ pc = "identify"
    /\ key_tables' = identify_field_player_tables(all_page_tables)
    /\ pc' = "fallback"
    /\ UNCHANGED <<all_page_tables, rejected_tables, processed_tables,
                   merged_df, final_df, result, csv_file, loop_vars, norm_vars,
                   cache_vars, run_vars>>

\* The missing categories are searched by unique markers.
Fallback ==
    /\ pc = "fallback"
    /\ found_by_markers' =
           IF Len(MissingTables(key_tables)) > 0
           THEN find_tables_by_unique_markers(all_page_tables,
                                              MissingTables(key_tables))
           ELSE <<>>
    /\ rejected_tables' = <<>>
    /\ loop_idx' = 0
    /\ pc' = "add_found"
    /\ UNCHANGED <<all_page_tables, key_tables, processed_tables, merged_df,
                   final_df, result, csv_file, norm_vars, cache_vars,
                   run_vars>>

\* One found table is added, with conflict resolution.
AddFound ==
    /\ pc = "add_found"
    /\ loop_idx < Len(found_by_markers)
    /\ LET r == add_found_table(found_by_markers[loop_idx + 1], key_tables,
                                rejected_tables)
       IN /\ key_tables' = r.key_tables
          /\ rejected_tables' = r.rejected_tables
    /\ loop_idx' = loop_idx + 1
    /\ UNCHANGED <<pc, all_page_tables, found_by_markers, processed_tables,
                   merged_df, final_df, result, csv_file, norm_vars,
                   cache_vars, run_vars>>

\* The loop over found_by_markers has ended.
AddFoundDone ==
    /\ pc = "add_found"
    /\ loop_idx = Len(found_by_markers)
    /\ pc' = "research"
    /\ loop_idx' = 0
    /\ UNCHANGED <<all_page_tables, key_tables, rejected_tables,
                   found_by_markers, processed_tables, merged_df, final_df,
                   result, csv_file, norm_vars, cache_vars, run_vars>>

\* One rejected name is searched at other positions.
Research ==
    /\ pc = "research"
    /\ loop_idx < Len(rejected_tables)
    /\ key_tables' =
           research_rejected(all_page_tables, rejected_tables[loop_idx + 1],
                             key_tables)
    /\ loop_idx' = loop_idx + 1
    /\ UNCHANGED <<pc, all_page_tables, rejected_tables, found_by_markers,
                   processed_tables, merged_df, final_df, result, csv_file,
                   norm_vars, cache_vars, run_vars>>

\* The loop over rejected_tables has ended, or there was nothing rejected.
ResearchDone ==
    /\ pc = "research"
    /\ loop_idx = Len(rejected_tables)
    /\ pc' = "check"
    /\ UNCHANGED <<all_page_tables, key_tables, rejected_tables, loop_vars,
                   processed_tables, merged_df, final_df, result, csv_file,
                   norm_vars, cache_vars, run_vars>>

\* Without the mandatory table the call returns None.
CheckStandard ==
    /\ pc = "check"
    /\ IF standard_found(key_tables)
       THEN pc' = "process" /\ UNCHANGED result
       ELSE pc' = "done" /\ result' = "None"
    /\ UNCHANGED <<all_page_tables, key_tables, rejected_tables,
                   processed_tables, merged_df, final_df, csv_file,
                   loop_vars, norm_vars, cache_vars, run_vars>>

\* Every classified table is processed, in the order of key_tables.
Process ==
    /\ pc = "process"
    /\ processed_tables' =
           [k \in 1..Len(key_tables) |->
               [name |-> key_tables[k].name,
                df |-> process_table_columns(key_tables[k].table,
                                             key_tables[k].name)]]
    /\ pc' = "merge"
    /\ UNCHANGED <<all_page_tables, key_tables, rejected_tables, merged_df,
                   final_df, result, csv_file, loop_vars, norm_vars, cache_vars, run_vars>>

Merge ==
    /\ pc = "merge"
    /\ merged_df' = merge_tables(processed_tables)
    /\ pc' = "cleanup"
    /\ UNCHANGED <<all_page_tables, key_tables, rejected_tables,
                   processed_tables, final_df, result, csv_file, loop_vars, norm_vars,
                   cache_vars, run_vars>>

FinalCleanup ==
    /\ pc = "cleanup"
    /\ final_df' = final_cleanup(merged_df)
    /\ pc' = "rename"
    /\ UNCHANGED <<all_page_tables, key_tables, rejected_tables,
                   processed_tables, merged_df, result, csv_file, loop_vars, norm_vars,
                   cache_vars, run_vars>>

Rename ==
    /\ pc = "rename"
    /\ final_df' = apply_field_player_renames(final_df)
    /\ pc' = "save"
    /\ UNCHANGED <<all_page_tables, key_tables, rejected_tables,
                   processed_tables, merged_df, result, csv_file, loop_vars, norm_vars,
                   cache_vars, run_vars>>

\* save_to_csv writes the file and the code after it raises: the handler
\* returns None.
SaveAndRaise ==
    /\ pc = "save"
    /\ csv_file' = final_df
    /\ result' = "None"
    /\ pc' = "done"
    /\ UNCHANGED <<all_page_tables, key_tables, rejected_tables,
                   processed_tables, merged_df, final_df, loop_vars, norm_vars,
                   cache_vars, run_vars>>

\* save_to_csv, and the frame is returned.
Save ==
    /\ pc = "save"
    /\ csv_file' = final_df
    /\ result' = "DataFrame"
    /\ pc' = "done"
    /\ UNCHANGED <<all_page_tables, key_tables, rejected_tables,
                   processed_tables, merged_df, final_df, loop_vars, norm_vars,
                   cache_vars, run_vars>>

\* parse_squad calls parse_player for the next player.
NextPlayer ==
    /\ pc = "done"
    /\ pc' = "fetch"
    /\ all_page_tables' = <<>>
    /\ key_tables' = <<>>
    /\ rejected_tables' = <<>>
    /\ found_by_markers' = <<>>
    /\ loop_idx' = 0
    /\ processed_tables' = <<>>
    /\ merged_df' = NoFrame
    /\ final_df' = NoFrame
    /\ result' = "pending"
    /\ csv_file' = NoFrame
    /\ UNCHANGED <<norm_vars, cache_vars, run_vars>>

Next ==
    \/ Fetch
    \/ FetchFails
    \/ Identify
    \/ Fallback
    \/ AddFound
    \/ AddFoundDone
    \/ Research
    \/ ResearchDone
    \/ CheckStandard
    \/ Process
    \/ Merge
    \/ FinalCleanup
    \/ Rename
    \/ Save
    \/ NextPlayer

Spec == Init /\ [][Next]_vars

(***************************************************************************)
(* core/column_processor.py: convert_to_snake_case applied to a header     *)
(* label, and to its own output.                                           *)
(***************************************************************************)
\* Most calls of convert_to_snake_case on one label the model follows.
MaxApplications == 2

\* The header labels given to the normalizer: every column name the pool's
\* tables have after process_table_columns, under every category.
HeaderLabels ==
    UNION {Range(ColumnNames(process_table_columns(t, c))) :
               t \in TableIds, c \in Categories}

NormInit ==
    /\ pc = "fetch"
    /\ all_page_tables = <<>>
    /\ key_tables = <<>>
    /\ rejected_tables = <<>>
    /\ found_by_markers = <<>>
    /\ loop_idx = 0
    /\ processed_tables = <<>>
    /\ merged_df = NoFrame
    /\ final_df = NoFrame
    /\ result = "pending"
    /\ csv_file = NoFrame
    /\ column_name \in HeaderLabels
    /\ normalized = <<>>
    /\ cache_file = [exists |-> FALSE, cached_at |-> 0, leagues |-> <<>>]
    /\ now = 1
    /\ loaded = [value |-> "None", leagues |-> <<>>]
    /\ discovered = NoDiscovery
    /\ SquadIdle
    /\ DagIdle
    /\ ToolIdle

\* convert_to_snake_case is called on the label, then on what it returned.
Normalize ==
    /\ Len(normalized) < MaxApplications
    /\ normalized' =
           Append(normalized,
                  convert_to_snake_case(
                      IF Len(normalized) = 0 THEN column_name
                      ELSE normalized[Len(normalized)]))
    /\ UNCHANGED <<column_name, parse_vars, cache_vars, run_vars>>

NormNext == Normalize
NormSpec == NormInit /\ [][NormNext]_vars

(***************************************************************************)
(* utils/league_discovery.py: the league metadata cache                    *)
(***************************************************************************)
\* Latest hour of the clock the model follows.
MaxClock == 3
\* The values of max_age_hours the model calls load_cached_metadata with.
MaxAgeChoices == {1, 2}

\* The season URLs a cached league entry may hold.
SeasonUrls ==
    {<<"/","e","n","/","c","o","m","p","s","/","9","/","2","0","2","4","-","2","0","2","5","/","2","0","2","4","-","2","0","2","5","-","P","r","e","m","i","e","r","-","L","e","a","g","u","e","-","S","t","a","t","s">>,
     <<"/","e","n","/","c","o","m","p","s","/","9","/","P","r","e","m","i","e","r","-","L","e","a","g","u","e","-","S","t","a","t","s">>,
     <<"/","e","n","/","c","o","m","p","s","/","9","/">>,
     <<"/","e","n","/","c","o","m","p","s","/","9","/","s","e","a","s","o","n","/","2","0","2","4">>,
     <<"/","e","n","/","c","o","m","p","s","/","s","e","a","s","o","n","/","2","0","2","4","-","2","0","2","5">>,
     <<"/","e","n","/","c","o","m","p","s","/","B","i","g","5","/","2","0","2","4","-","2","0","2","5","/","2","0","2","4","-","2","0","2","5","-","B","i","g","-","5","-","S","t","a","t","s">>,
     <<"/","e","n","/","c","o","m","p","s","/","1","2">>,
     <<"/","e","n","/","s","q","u","a","d","s","/","1","8","b","b","7","c","1","0","/","A","r","s","e","n","a","l","-","S","t","a","t","s">>,
     <<>>}
Leagues == {[season_url |-> u] : u \in SeasonUrls}
RECURSIVE LeagueListsOfLen(_)
LeagueListsOfLen(n) ==
    IF n = 0 THEN {<<>>}
    ELSE {Append(l, e) : l \in LeagueListsOfLen(n - 1), e \in Leagues}
LeagueLists == UNION {LeagueListsOfLen(n) : n \in 0..MaxLeagues}

\* url.split(sub, 1)[1]: what follows the first occurrence of sub.
FirstIndexOf(sub, s) ==
    CHOOSE i \in 1..Len(s) :
        StartsWithAt(s, sub, i) /\ \A j \in 1..(i - 1) : ~StartsWithAt(s, sub, j)
after_first(s, sub) == SubSeq(s, FirstIndexOf(sub, s) + Len(sub), Len(s))
\* parts = url.split('/comps/', 1)[1].split('/')
url_parts(url) == split(after_first(url, <<"/","c","o","m","p","s","/">>), "/")

\* re.search(r'20\d{2}', s)
HasYear(s) ==
    \E i \in 1..(Len(s) - 3) :
        /\ s[i] = "2" /\ s[i + 1] = "0"
        /\ isdigit(<<s[i + 2]>>) /\ isdigit(<<s[i + 3]>>)

\* is_valid_season_url of get_latest_season_url, without a league_id.
is_valid_season_url(url) ==
    IF Len(url) = 0 \/ ~In(<<"/","c","o","m","p","s","/">>, url) THEN FALSE
    ELSE LET parts == url_parts(url)
         IN IF Len(parts) < 2 THEN FALSE
            ELSE IF ~isdigit(parts[1]) THEN FALSE
            ELSE IF parts[2] = <<"s","e","a","s","o","n">> THEN FALSE
            ELSE HasYear(join(<<"/">>, Tail(parts)))

\* _valid_cached_league of load_cached_metadata
valid_cached_league(league) ==
    LET url == league.season_url
    IN IF Len(url) = 0 \/ ~In(<<"/","c","o","m","p","s","/">>, url) THEN FALSE
       ELSE LET parts == url_parts(url)
            IN IF Len(parts) < 2 \/ ~isdigit(parts[1]) THEN FALSE
               ELSE IF parts[2] = <<"s","e","a","s","o","n">> THEN FALSE
               ELSE TRUE

\* What load_cached_metadata returns for a cache file at an hour.
load_cached_metadata(file, hour, max_age_hours) ==
    IF ~file.exists THEN [value |-> "None", leagues |-> <<>>]
    ELSE IF file.cached_at = 0 THEN [value |-> "None", leagues |-> <<>>]
    ELSE IF hour - file.cached_at > max_age_hours
    THEN [value |-> "None", leagues |-> <<>>]
    ELSE LET valid_leagues == SelectSeq(file.leagues, valid_cached_league)
         IN IF Len(valid_leagues) = 0
            THEN [value |-> "None", leagues |-> <<>>]
            ELSE [value |-> "list", leagues |-> valid_leagues]

\* The fewest cached leagues of the requested tiers and gender that
\* discover_all_leagues accepts.
MIN_CACHED_LEAGUES == 50
\* What the competitions page lists, with the season URL that
\* get_latest_season_url gives each league.
SiteLeagues ==
    << [season_url |-> <<"/","e","n","/","c","o","m","p","s","/","9","/","2","0","2","4","-","2","0","2","5">>,
        tier |-> "1st", gender |-> "M"],
       [season_url |-> <<"/","e","n","/","c","o","m","p","s","/","1","0","/","2","0","2","4","-","2","0","2","5">>,
        tier |-> "2nd", gender |-> "M"],
       [season_url |-> <<"/","e","n","/","c","o","m","p","s","/","1","8","9","/","2","0","2","4","-","2","0","2","5">>,
        tier |-> "1st", gender |-> "W"] >>
\* extract_all_leagues(tiers, gender), each league with its season URL.
extract_all_leagues(tiers, gender) ==
    SelectSeq(SiteLeagues, LAMBDA l : l.tier \in tiers /\ l.gender = gender)

\* discover_all_leagues without the test of line 462: every cache that holds
\* a league of the requested tiers and gender is used.
reuse_any_cached(file, hour, max_age_hours, use_cache, tiers, gender, ok) ==
    LET cached_leagues ==
            IF use_cache THEN load_cached_metadata(file, hour, max_age_hours)
            ELSE [value |-> "None", leagues |-> <<>>]
        filtered ==
            SelectSeq(cached_leagues.leagues,
                LAMBDA l : l.tier \in tiers /\ l.gender = gender)
    IN IF use_cache /\ cached_leagues.value = "list" /\ Len(filtered) > 0
       THEN [outcome |-> "cache", leagues |-> filtered,
             filtered |-> Len(filtered), file |-> file]
       ELSE IF ~ok
       THEN [outcome |-> "raised", leagues |-> <<>>,
             filtered |-> Len(filtered), file |-> file]
       ELSE LET leagues == extract_all_leagues(tiers, gender)
            IN [outcome |-> "fetched", leagues |-> leagues,
                filtered |-> Len(filtered),
                file |-> [exists |-> TRUE, cached_at |-> hour,
                          leagues |-> leagues]]

\* discover_all_leagues on a cache file at an hour: what it returns, whether
\* it requested pages, the size of the filtered cache, and the cache file it
\* leaves.  ok tells whether the competitions page can be fetched.
discover_all_leagues(file, hour, max_age_hours, use_cache, tiers, gender, ok) ==
    LET cached_leagues ==
            IF use_cache THEN load_cached_metadata(file, hour, max_age_hours)
            ELSE [value |-> "None", leagues |-> <<>>]
        filtered ==
            SelectSeq(cached_leagues.leagues,
                LAMBDA l : l.tier \in tiers /\ l.gender = gender)
    IN IF /\ use_cache
          /\ cached_leagues.value = "list"
          /\ Len(filtered) > 0
          /\ ~(Len(filtered) < MIN_CACHED_LEAGUES)
       THEN [outcome |-> "cache", leagues |-> filtered,
             filtered |-> Len(filtered), file |-> file]
       ELSE IF ~ok
       THEN [outcome |-> "raised", leagues |-> <<>>,
             filtered |-> Len(filtered), file |-> file]
       ELSE LET leagues == extract_all_leagues(tiers, gender)
            IN [outcome |-> "fetched", leagues |-> leagues,
                filtered |-> Len(filtered),
                file |-> [exists |-> TRUE, cached_at |-> hour,
                          leagues |-> leagues]]

CacheInit ==
    /\ pc = "fetch"
    /\ all_page_tables = <<>>
    /\ key_tables = <<>>
    /\ rejected_tables = <<>>
    /\ found_by_markers = <<>>
    /\ loop_idx = 0
    /\ processed_tables = <<>>
    /\ merged_df = NoFrame
    /\ final_df = NoFrame
    /\ result = "pending"
    /\ csv_file = NoFrame
    /\ column_name = <<>>
    /\ normalized = <<>>
    /\ cache_file = [exists |-> FALSE, cached_at |-> 0, leagues |-> <<>>]
    /\ now = 1
    /\ loaded = [value |-> "None", leagues |-> <<>>]
    /\ discovered = NoDiscovery
    /\ SquadIdle
    /\ DagIdle
    /\ ToolIdle

\* cache_league_metadata(leagues) writes the file with the time of writing.
CacheLeagueMetadata ==
    /\ \E leagues \in LeagueLists :
           cache_file' = [exists |-> TRUE, cached_at |-> now,
                          leagues |-> leagues]
    /\ UNCHANGED <<now, loaded, discovered, parse_vars, norm_vars, run_vars>>

LoadCachedMetadata ==
    /\ \E max_age_hours \in MaxAgeChoices :
           loaded' = load_cached_metadata(cache_file, now, max_age_hours)
    /\ UNCHANGED <<cache_file, now, discovered, parse_vars, norm_vars,
                   run_vars>>

\* An hour passes.
Tick ==
    /\ now < MaxClock
    /\ now' = now + 1
    /\ UNCHANGED <<cache_file, loaded, discovered, parse_vars, norm_vars,
                   run_vars>>

CacheNext == CacheLeagueMetadata \/ LoadCachedMetadata \/ Tick
CacheSpec == CacheInit /\ [][CacheNext]_vars

(***************************************************************************)
(* discover_all_leagues, called again and again on a cache file that       *)
(* starts absent or holds a snapshot of up to MIN_CACHED_LEAGUES leagues   *)
(* of the first tier followed by at most one league of each other kind.    *)
(***************************************************************************)
OtherCounts == {0, 1}
\* n times the entry e.
Block(e, n) == [i \in 1..n |-> e]
\* A men's league of the second tier, a league whose season URL is not
\* valid, and a women's league.
OtherEntries ==
    << SiteLeagues[2],
       [season_url |-> <<"/","e","n","/","c","o","m","p","s","/","9","/","s","e","a","s","o","n","/","2","0","2","4">>, tier |-> "1st",
        gender |-> "M"],
       SiteLeagues[3] >>
Snapshots ==
    {Block(SiteLeagues[1], a) \o Block(OtherEntries[1], b)
         \o Block(OtherEntries[2], c) \o Block(OtherEntries[3], d) :
        a \in {0, MIN_CACHED_LEAGUES - 1, MIN_CACHED_LEAGUES},
        b \in OtherCounts, c \in OtherCounts, d \in OtherCounts}
\* The tiers and the gender the callers ask for.
TierChoices == {{"1st", "2nd", "3rd"}, {"1st"}}
GenderChoices == {"M", "W"}

DiscoverInit ==
    /\ pc = "fetch"
    /\ all_page_tables = <<>>
    /\ key_tables = <<>>
    /\ rejected_tables = <<>>
    /\ found_by_markers = <<>>
    /\ loop_idx = 0
    /\ processed_tables = <<>>
    /\ merged_df = NoFrame
    /\ final_df = NoFrame
    /\ result = "pending"
    /\ csv_file = NoFrame
    /\ column_name = <<>>
    /\ normalized = <<>>
    /\ SquadIdle
    /\ DagIdle
    /\ ToolIdle
    /\ now = 1
    /\ loaded = [value |-> "None", leagues |-> <<>>]
    /\ discovered = NoDiscovery
    /\ \/ cache_file = [exists |-> FALSE, cached_at |-> 0, leagues |-> <<>>]
       \/ \E leagues \in Snapshots :
              cache_file = [exists |-> TRUE, cached_at |-> 1,
                            leagues |-> leagues]

\* One call of discover_all_leagues.  METADATA_CACHE_MAX_AGE_HOURS is not
\* among the constants of the sources: every value of MaxAgeChoices is
\* followed.
DiscoverLeagues ==
    \E use_cache \in BOOLEAN, tiers \in TierChoices, gender \in GenderChoices,
       max_age_hours \in MaxAgeChoices, site_ok \in BOOLEAN :
        LET r == discover_all_leagues(cache_file, now, max_age_hours,
                                      use_cache, tiers, gender, site_ok)
        IN /\ discovered' =
                  [outcome |-> r.outcome, use_cache |-> use_cache,
                   tiers |-> tiers, gender |-> gender,
                   max_age_hours |-> max_age_hours,
                   filtered |-> r.filtered, leagues |-> r.leagues]
           /\ cache_file' = r.file
           /\ UNCHANGED <<now, loaded, parse_vars, norm_vars, run_vars>>

DiscoverNext == DiscoverLeagues \/ Tick
DiscoverSpec == DiscoverInit /\ [][DiscoverNext]_vars

(***************************************************************************)
(* utils/file_helpers.py: file names                                       *)
(***************************************************************************)
\* The characters \s and \w of the regular expressions match.
IsSpace(c) == c \in {" ", "\t", "\n"}
IsWordChar(c) ==
    c = "_" \/ c \in Range(UpperChars) \cup Range(LowerChars)
                       \cup Range(DigitChars)

\* name.strip()
RECURSIVE lstrip(_)
lstrip(s) == IF Len(s) > 0 /\ IsSpace(s[1]) THEN lstrip(Tail(s)) ELSE s
RECURSIVE rstrip(_)
rstrip(s) ==
    IF Len(s) > 0 /\ IsSpace(s[Len(s)])
    THEN rstrip(SubSeq(s, 1, Len(s) - 1))
    ELSE s
strip(s) == rstrip(lstrip(s))

\* re.sub(r'[^\w\s-]', '', s)
remove_unsafe(s) ==
    SelectSeq(s, LAMBDA c : IsWordChar(c) \/ IsSpace(c) \/ c = "-")

\* re.sub(r'[\s-]+', '_', s)
IsSeparator(c) == IsSpace(c) \/ c = "-"
RECURSIVE UnderscoreFrom(_, _)
UnderscoreFrom(s, i) ==
    IF i > Len(s) THEN <<>>
    ELSE IF IsSeparator(s[i])
         THEN (IF i > 1 /\ IsSeparator(s[i - 1]) THEN <<>> ELSE <<"_">>)
              \o UnderscoreFrom(s, i + 1)
         ELSE <<s[i]>> \o UnderscoreFrom(s, i + 1)
underscore_separators(s) == UnderscoreFrom(s, 1)

normalize_name(name) ==
    lower(underscore_separators(remove_unsafe(strip(name))))

\* output_dir=None
NoDir == <<>>
\* The path of a file: its directory and its name.
get_output_path(player_name, output_dir, simple_filename) ==
    LET normalized_name == normalize_name(player_name)
        filename == IF simple_filename
                    THEN normalized_name \o <<".","c","s","v">>
                    ELSE normalized_name \o <<"_","a","l","l","_","c","o","m","p","e","t","i","t","i","o","n","s">> \o <<".","c","s","v">>
    IN IF output_dir # NoDir
       THEN [dir |-> output_dir, name |-> filename]
       ELSE [dir |-> <<<<"/","r","o","o","t","/","d","a","t","a","_","p","l","a","t","f","o","r","m">>>>, name |-> filename]

\* os.listdir(d): the names of the files in d.
listdir(fs, d) == {f.name : f \in {g \in fs : g.dir = d}}

(***************************************************************************)
(* airflow/dags: the batch task parse_team_players_batch, the team call    *)
(* parse_team_all_players_universal and the two squad drivers,             *)
(* FieldPlayerParser.parse_squad and                                       *)
(* GoalkeeperParser.parse_squad_goalkeepers.                               *)
(***************************************************************************)
\* Longest batch given to one task, and most tasks started on one disk.
MaxBatch == 2
MaxRuns == 2

\* The team_info dicts the tasks are given.  The third has no 'squad_url'.
TeamInfo ==
    <<[team_name |-> <<"A","r","s","e","n","a","l">>, league_name |-> <<"P","r","e","m","i","e","r"," ","L","e","a","g","u","e">>,
       has_squad_url |-> TRUE],
      [team_name |-> <<"R","e","a","l"," ","M","a","d","r","i","d">>, league_name |-> <<"L","a"," ","L","i","g","a">>,
       has_squad_url |-> TRUE],
      [team_name |-> <<"U","n","k","n","o","w","n"," ","F","C">>, league_name |-> <<"L","a"," ","L","i","g","a">>,
       has_squad_url |-> FALSE]>>
\* What the squad pages list.  Two field players of the first squad have
\* names with the same normalization.
SquadPage ==
    <<[field_links |-> <<<<"B","e","n"," ","W","h","i","t","e">>, <<"B","e","n","-","W","h","i","t","e">>>>,
       goalkeeper_links |-> <<<<"D","a","v","i","d"," ","R","a","y","a">>>>],
      [field_links |-> <<<<"V","i","n","i"," ","J","r",".">>>>,
       goalkeeper_links |-> <<<<"T","."," ","C","o","u","r","t","o","i","s">>>>],
      [field_links |-> <<>>, goalkeeper_links |-> <<>>]>>
TeamIds == DOMAIN TeamInfo
Batches == UNION {[1..n -> TeamIds] : n \in 1..MaxBatch}

\* The directory the all-leagues DAG writes under.
ALL_LEAGUES_DATA_DIR == <<"/","o","p","t","/","a","i","r","f","l","o","w","/","d","a","t","a","/","l","e","a","g","u","e","s">>

\* os.path.join(ALL_LEAGUES_DATA_DIR, league_dir_name, team_dir_name)
team_base_dir(team_info) ==
    <<ALL_LEAGUES_DATA_DIR, normalize_name(team_info.league_name),
      normalize_name(team_info.team_name)>>
field_players_dir(team_info) ==
    Append(team_base_dir(team_info), <<"f","i","e","l","d","_","p","l","a","y","e","r","s">>)
goalkeepers_dir(team_info) ==
    Append(team_base_dir(team_info), <<"g","o","a","l","k","e","e","p","e","r","s">>)

\* A result dict is a record with the set of the keys it holds; the other
\* fields are fillers.  dict.get(key, default):
get(d, key, default) == IF key \in d.keys THEN d[key] ELSE default

\* str(e) of the two exceptions a team call raises.
KeyErrorMessage == "'squad_url'"
NoPlayersMessage == "no players found on the team page"

\* The record the batch task appends when the team call raised.
error_record(team_info, e) ==
    [team |-> team_info.team_name, league_name |-> team_info.league_name,
     error |-> e, field_players_failed |-> 1, goalkeepers_failed |-> 1,
     total_players |-> 0, field_players_count |-> 0,
     goalkeepers_count |-> 0,
     keys |-> {"team", "league_name", "error", "field_players_failed",
               "goalkeepers_failed", "total_players"}]
\* The handler of the batch loop dropping the team that raised.
drop_failed_team(rs, team_info, e) == rs
\* except Exception as e: results.append({...})
on_team_exception(rs, team_info, e) == Append(rs, error_record(team_info, e))

\* The results dict a team call returns.
team_record(team_info, counts) ==
    [team |-> team_info.team_name, league_name |-> team_info.league_name,
     error |-> "",
     field_players_failed |-> counts.field_players_failed,
     goalkeepers_failed |-> counts.goalkeepers_failed,
     total_players |->
         counts.field_players_count + counts.goalkeepers_count,
     field_players_count |-> counts.field_players_count,
     goalkeepers_count |-> counts.goalkeepers_count,
     keys |-> {"team", "league_name", "field_players_count",
               "goalkeepers_count", "total_players", "field_players_failed",
               "goalkeepers_failed"}]

\* The team the batch loop is at, and the roster being parsed.
CurrentTeam == TeamInfo[team_batch[team_idx]]
CurrentPage == SquadPage[team_batch[team_idx]]
CurrentPlayer == player_links[link_idx]

\* Every file is listed as parsed: no file name is skipped.
skip_nothing(player_name, listing) == FALSE
\* player_filename in existing_files
already_parsed(player_name, listing) ==
    (normalize_name(player_name) \o <<".","c","s","v">>) \in listing

\* The file parse_player saves for a player of the squad.
field_player_file(player_name) ==
    get_output_path(player_name, constants_dirs.field, TRUE)

\* The name DEFAULT_OUTPUT_DIR_GOALKEEPERS of parsers/goalkeeper.py: bound
\* by 'from ..constants import' when the module is imported, so a later
\* assignment to the attribute of constants does not change it.
goalkeeper_module_dir == DEFAULT_OUTPUT_DIR_GOALKEEPERS
\* f"{DEFAULT_OUTPUT_DIR_GOALKEEPERS}/{normalized_name}_goalkeeper_stats.csv"
goalkeeper_file(player_name) ==
    [dir |-> goalkeeper_module_dir,
     name |-> normalize_name(player_name) \o <<"_","g","o","a","l","k","e","e","p","e","r","_","s","t","a","t","s",".","c","s","v">>]

TeamInit ==
    /\ pc = "fetch"
    /\ all_page_tables = <<>>
    /\ key_tables = <<>>
    /\ rejected_tables = <<>>
    /\ found_by_markers = <<>>
    /\ loop_idx = 0
    /\ processed_tables = <<>>
    /\ merged_df = NoFrame
    /\ final_df = NoFrame
    /\ result = "pending"
    /\ csv_file = NoFrame
    /\ column_name = <<>>
    /\ normalized = <<>>
    /\ cache_file = [exists |-> FALSE, cached_at |-> 0, leagues |-> <<>>]
    /\ now = 1
    /\ loaded = [value |-> "None", leagues |-> <<>>]
    /\ discovered = NoDiscovery
    /\ task_state = "none"
    /\ team_batch = <<>>
    /\ team_idx = 0
    /\ results = <<>>
    /\ tpc = "idle"
    /\ team_result = NoCounts
    /\ player_links = <<>>
    /\ link_idx = 0
    /\ existing_files = {}
    /\ constants_dirs = [field |-> DEFAULT_OUTPUT_DIR_FIELD_PLAYERS,
                         gk |-> DEFAULT_OUTPUT_DIR_GOALKEEPERS]
    /\ dirs \in SUBSET {DEFAULT_OUTPUT_DIR_GOALKEEPERS}
    /\ files = {}
    /\ start_files = {}
    /\ fetch_log = {}
    /\ write_log = {}
    /\ runs = 0
    /\ DagIdle
    /\ ToolIdle

team_frame == <<parse_vars, norm_vars, cache_vars, dag_vars, tool_vars>>

\* The scheduler starts a mapped instance of parse_team_players_batch.
StartBatch ==
    /\ task_state \in {"none", "success"}
    /\ runs < MaxRuns
    /\ \E batch \in Batches : team_batch' = batch
    /\ task_state' = "running"
    /\ team_idx' = 1
    /\ results' = <<>>
    /\ runs' = runs + 1
    /\ UNCHANGED <<tpc, team_result, player_links, link_idx, existing_files,
                   constants_dirs, dirs, files, start_files, fetch_log,
                   write_log, team_frame>>

InBatchLoop ==
    task_state = "running" /\ tpc = "idle" /\ team_idx <= Len(team_batch)

\* team_info['squad_url'] raises KeyError; the batch loop records it.
TeamCallRaises ==
    /\ InBatchLoop
    /\ ~CurrentTeam.has_squad_url
    /\ results' = on_team_exception(results, CurrentTeam, KeyErrorMessage)
    /\ team_idx' = team_idx + 1
    /\ UNCHANGED <<task_state, team_batch, tpc, team_result, player_links,
                   link_idx, existing_files, constants_dirs, dirs, files,
                   start_files, fetch_log, write_log, runs, team_frame>>

\* The team call creates the two directories of the team and assigns
\* them to the attributes of constants.
TeamCallStart ==
    /\ InBatchLoop
    /\ CurrentTeam.has_squad_url
    /\ dirs' = dirs \cup {field_players_dir(CurrentTeam),
                          goalkeepers_dir(CurrentTeam)}
    /\ constants_dirs' = [field |-> field_players_dir(CurrentTeam),
                          gk |-> goalkeepers_dir(CurrentTeam)]
    /\ team_result' = NoCounts
    /\ start_files' = files
    /\ fetch_log' = {}
    /\ write_log' = {}
    /\ tpc' = "field_links"
    /\ UNCHANGED <<task_state, team_batch, team_idx, results, player_links,
                   link_idx, existing_files, files, runs, team_frame>>

\* parse_squad: extract_field_player_links gives the roster, or [] when
\* the squad page cannot be read; then the listing of the directory.
ExtractFieldLinks ==
    /\ tpc = "field_links"
    /\ \E links \in {CurrentPage.field_links, <<>>} :
           /\ player_links' = links
           /\ tpc' = IF links = <<>> THEN "gk_links" ELSE "field"
           /\ existing_files' =
                  IF links = <<>> THEN existing_files
                  ELSE IF constants_dirs.field \in dirs
                       THEN listdir(files, constants_dirs.field)
                       ELSE {}
    /\ link_idx' = 1
    /\ UNCHANGED <<task_state, team_batch, team_idx, results, team_result,
                   constants_dirs, dirs, files, start_files, fetch_log,
                   write_log, runs, team_frame>>

\* The loop of parse_squad moves to the next link, or returns.
AdvanceField ==
    /\ link_idx' = link_idx + 1
    /\ tpc' = IF link_idx = Len(player_links) THEN "gk_links" ELSE "field"

\* The file of the player is in the listing: continue.
SkipExistingPlayer ==
    /\ tpc = "field"
    /\ already_parsed(CurrentPlayer, existing_files)
    /\ team_result' = [team_result EXCEPT !.skipped_players = @ + 1]
    /\ AdvanceField
    /\ UNCHANGED <<task_state, team_batch, team_idx, results, player_links,
                   existing_files, constants_dirs, dirs, files, start_files,
                   fetch_log, write_log, runs, team_frame>>

\* parse_player fetches the page, saves the frame and returns it.
ParsePlayerSucceeds ==
    /\ tpc = "field"
    /\ ~already_parsed(CurrentPlayer, existing_files)
    /\ fetch_log' = fetch_log \cup {[kind |-> "field", name |-> CurrentPlayer]}
    /\ dirs' = dirs \cup {field_player_file(CurrentPlayer).dir}
    /\ files' = files \cup {field_player_file(CurrentPlayer)}
    /\ write_log' = write_log \cup {field_player_file(CurrentPlayer)}
    /\ team_result' =
           [team_result EXCEPT !.field_players_count = @ + 1]
    /\ AdvanceField
    /\ UNCHANGED <<task_state, team_batch, team_idx, results, player_links,
                   existing_files, constants_dirs, start_files, runs,
                   team_frame>>

\* parse_player returns None: the fetch or a later stage failed.
ParsePlayerFails ==
    /\ tpc = "field"
    /\ ~already_parsed(CurrentPlayer, existing_files)
    /\ fetch_log' = fetch_log \cup {[kind |-> "field", name |-> CurrentPlayer]}
    /\ AdvanceField
    /\ UNCHANGED <<task_state, team_batch, team_idx, results, team_result,
                   player_links, existing_files, constants_dirs, dirs, files,
                   start_files, write_log, runs, team_frame>>

\* parse_squad_goalkeepers: extract_goalkeeper_links gives the links, or
\* [] when the squad page cannot be read.
ExtractGoalkeeperLinks ==
    /\ tpc = "gk_links"
    /\ \E links \in {CurrentPage.goalkeeper_links, <<>>} :
           /\ player_links' = links
           /\ tpc' = IF links = <<>> THEN "totals" ELSE "gk"
    /\ link_idx' = 1
    /\ UNCHANGED <<task_state, team_batch, team_idx, results, team_result,
                   existing_files, constants_dirs, dirs, files, start_files,
                   fetch_log, write_log, runs, team_frame>>

AdvanceGoalkeeper ==
    /\ link_idx' = link_idx + 1
    /\ tpc' = IF link_idx = Len(player_links) THEN "totals" ELSE "gk"

\* parse_goalkeeper returns a frame; to_csv writes it when the directory
\* exists and raises OSError, which is caught, when it does not.
GoalkeeperParsed ==
    /\ tpc = "gk"
    /\ fetch_log' = fetch_log \cup {[kind |-> "gk", name |-> CurrentPlayer]}
    /\ IF goalkeeper_file(CurrentPlayer).dir \in dirs
       THEN /\ files' = files \cup {goalkeeper_file(CurrentPlayer)}
            /\ write_log' = write_log \cup {goalkeeper_file(CurrentPlayer)}
            /\ team_result' =
                   [team_result EXCEPT !.goalkeepers_count = @ + 1]
       ELSE UNCHANGED <<files, write_log, team_result>>
    /\ AdvanceGoalkeeper
    /\ UNCHANGED <<task_state, team_batch, team_idx, results, player_links,
                   existing_files, constants_dirs, dirs, start_files, runs,
                   team_frame>>

\* parse_goalkeeper returns None.
GoalkeeperFails ==
    /\ tpc = "gk"
    /\ fetch_log' = fetch_log \cup {[kind |-> "gk", name |-> CurrentPlayer]}
    /\ AdvanceGoalkeeper
    /\ UNCHANGED <<task_state, team_batch, team_idx, results, team_result,
                   player_links, existing_files, constants_dirs, dirs, files,
                   start_files, write_log, runs, team_frame>>

RestoredDirs ==
    [field |-> DEFAULT_OUTPUT_DIR_FIELD_PLAYERS,
     gk |-> DEFAULT_OUTPUT_DIR_GOALKEEPERS]
total_players(counts) ==
    counts.field_players_count + counts.goalkeepers_count

\* The team call returns its results and the batch loop appends them.
TeamCallReturns ==
    /\ tpc = "totals"
    /\ total_players(team_result) # 0
    /\ constants_dirs' = RestoredDirs
    /\ results' = Append(results, team_record(CurrentTeam, team_result))
    /\ team_idx' = team_idx + 1
    /\ tpc' = "idle"
    /\ UNCHANGED <<task_state, team_batch, team_result, player_links,
                   link_idx, existing_files, dirs, files, start_files,
                   fetch_log, write_log, runs, team_frame>>

\* No player was parsed: the team call raises and the batch loop records
\* the exception.
TeamCallFindsNoPlayers ==
    /\ tpc = "totals"
    /\ total_players(team_result) = 0
    /\ constants_dirs' = RestoredDirs
    /\ team_result' = [team_result EXCEPT !.field_players_failed = @ + 1,
                                          !.goalkeepers_failed = @ + 1]
    /\ results' = on_team_exception(results, CurrentTeam, NoPlayersMessage)
    /\ team_idx' = team_idx + 1
    /\ tpc' = "idle"
    /\ UNCHANGED <<task_state, team_batch, player_links, link_idx,
                   existing_files, dirs, files, start_files, fetch_log,
                   write_log, runs, team_frame>>

\* return results: the task instance succeeds.
FinishBatch ==
    /\ task_state = "running"
    /\ tpc = "idle"
    /\ team_idx > Len(team_batch)
    /\ task_state' = "success"
    /\ UNCHANGED <<team_batch, team_idx, results, tpc, team_result,
                   player_links, link_idx, existing_files, constants_dirs,
                   dirs, files, start_files, fetch_log, write_log, runs,
                   team_frame>>

TeamNext ==
    \/ StartBatch
    \/ TeamCallRaises
    \/ TeamCallStart
    \/ ExtractFieldLinks
    \/ SkipExistingPlayer
    \/ ParsePlayerSucceeds
    \/ ParsePlayerFails
    \/ ExtractGoalkeeperLinks
    \/ GoalkeeperParsed
    \/ GoalkeeperFails
    \/ TeamCallReturns
    \/ TeamCallFindsNoPlayers
    \/ FinishBatch
TeamSpec == TeamInit /\ [][TeamNext]_vars

(***************************************************************************)
(* airflow/dags: the tasks of fbref_all_leagues_parser and of              *)
(* fbref_russian_premier_league_parser under the scheduler, with the       *)
(* single-slot pool 'fbref_pool'.                                          *)
(***************************************************************************)
\* Most leagues discover_all_leagues returns in the model.
MaxDagLeagues == 2

\* The leagues of the site and the teams their season pages list; the page
\* of the third has no standings table.
LeagueInfo ==
    <<[name |-> "Premier League", teams |-> <<"Arsenal">>],
      [name |-> "La Liga", teams |-> <<"Real Madrid", "Getafe">>],
      [name |-> "Serie C", teams |-> <<>>]>>
LeagueIds == DOMAIN LeagueInfo
DiscoveredLists ==
    {ls \in UNION {[1..n -> LeagueIds] : n \in 1..MaxDagLeagues} :
        \A i, j \in DOMAIN ls : i # j => ls[i] # ls[j]}
\* The squads get_premier_league_squads returns.
SquadLists == {<<"Zenit">>, <<"Zenit", "Spartak">>}

\* The pool argument of the @task decorators.
pool_of(task) ==
    IF task \in {"extract_league_teams", "parse_team_players_batch",
                 "parse_squad_players"}
    THEN "fbref_pool"
    ELSE "default_pool"
\* The slots of 'fbref_pool'.
FBREF_POOL_SLOTS == 1

\* The tasks whose callable requests pages of the site.  The discovery
\* requests none when the metadata cache is used.
FetchChoices(task) ==
    IF task = "discover_all_leagues" THEN BOOLEAN
    ELSE {task \in {"extract_league_teams", "parse_team_players_batch",
                    "extract_premier_league_squads", "parse_squad_players"}}

\* The tasks a task waits for.
Upstream(task) ==
    CASE task = "extract_league_teams" -> {"discover_all_leagues"}
      [] task = "flatten_team_lists" -> {"extract_league_teams"}
      [] task = "chunk_teams" -> {"flatten_team_lists"}
      [] task = "parse_team_players_batch" -> {"chunk_teams"}
      [] task = "flatten_batch_results" -> {"parse_team_players_batch"}
      [] task = "group_results_by_league" -> {"flatten_batch_results"}
      [] task = "prepare_league_reports_data" -> {"group_results_by_league"}
      [] task = "report_league_results" -> {"prepare_league_reports_data"}
      [] task = "report_final_results" -> {"report_league_results"}
      [] task = "parse_squad_players" -> {"extract_premier_league_squads"}
      [] task = "report_results" -> {"parse_squad_players"}
      [] OTHER -> {}
Tasks ==
    {"discover_all_leagues", "extract_league_teams", "flatten_team_lists",
     "chunk_teams", "parse_team_players_batch", "flatten_batch_results",
     "group_results_by_league", "prepare_league_reports_data",
     "report_league_results", "report_final_results",
     "extract_premier_league_squads", "parse_squad_players",
     "report_results"}

\* The number of instances of a task: the length of the list a mapped task
\* is expanded over, and one for the others.
MapLength(task) ==
    CASE task = "extract_league_teams" -> Len(xcom.leagues)
      [] task = "parse_team_players_batch" -> Len(xcom.team_batches)
      [] task = "report_league_results" -> Len(xcom.league_reports_data)
      [] task = "parse_squad_players" -> Len(xcom.squads)
      [] OTHER -> 1
Instances(task) == {[task |-> task, idx |-> i] : i \in 1..MapLength(task)}
\* Every instance succeeded.  A task expanded over an empty list has no
\* instance and is skipped, and so is everything downstream of it.
Done(task) == MapLength(task) > 0 /\ Instances(task) \subseteq finished
InstanceOf(ti) == [task |-> ti.task, idx |-> ti.idx]
SlotsInUse(pool) == Cardinality({ti \in running : pool_of(ti.task) = pool})

\* b for b in lists if b; extend
RECURSIVE flatten(_)
flatten(lists) ==
    IF lists = <<>> THEN <<>> ELSE Head(lists) \o flatten(Tail(lists))

\* The teams of extract_league_teams with the league context added.
with_league_context(teams, league_info) ==
    [k \in 1..Len(teams) |->
        [team_name |-> teams[k], league_name |-> league_info.name]]

\* chunk_teams: [teams[i:i + chunk_size] for i in range(0, len(teams), ...)]
CHUNK_SIZE == 300
RECURSIVE chunk_teams(_, _)
chunk_teams(teams, chunk_size) ==
    IF teams = <<>> THEN <<>>
    ELSE IF Len(teams) <= chunk_size THEN <<teams>>
    ELSE <<SubSeq(teams, 1, chunk_size)>>
         \o chunk_teams(SubSeq(teams, chunk_size + 1, Len(teams)), chunk_size)

\* The counts of a team call that parsed one field player and one
\* goalkeeper.
ParsedCounts ==
    [field_players_count |-> 1, goalkeepers_count |-> 1,
     field_players_failed |-> 0, goalkeepers_failed |-> 0]
\* The records of a batch, one per team: the team call returned or raised.
batch_records(team_batch_in, outcome) ==
    [k \in 1..Len(team_batch_in) |->
        IF outcome[k] = "returned"
        THEN team_record(team_batch_in[k], ParsedCounts)
        ELSE error_record(team_batch_in[k], NoPlayersMessage)]

\* group_results_by_league: the dict league -> results, in insertion order.
RECURSIVE GroupFrom(_, _, _)
GroupFrom(team_results, k, leagues) ==
    IF k > Len(team_results) THEN leagues
    ELSE LET league == team_results[k].league_name
             known == \E i \in DOMAIN leagues : leagues[i].key = league
         IN GroupFrom(team_results, k + 1,
                IF known
                THEN [i \in DOMAIN leagues |->
                         IF leagues[i].key = league
                         THEN [leagues[i] EXCEPT
                                  !.value = Append(@, team_results[k])]
                         ELSE leagues[i]]
                ELSE Append(leagues, [key |-> league,
                                      value |-> <<team_results[k]>>]))
group_results_by_league(team_results) == GroupFrom(team_results, 1, <<>>)

\* prepare_league_reports_data: the items of the dict as a list of dicts.
prepare_league_reports_data(grouped) ==
    [i \in DOMAIN grouped |->
        [league_name |-> grouped[i].key, teams |-> grouped[i].value]]

\* sum(t.get(key, 0) for t in teams)
RECURSIVE SumOf(_, _)
SumOf(teams, key) ==
    IF teams = <<>> THEN 0
    ELSE get(Head(teams), key, 0) + SumOf(Tail(teams), key)
\* sum(r[key] for r in reports)
RECURSIVE Total(_, _)
Total(reports, key) ==
    IF reports = <<>> THEN 0
    ELSE Head(reports)[key] + Total(Tail(reports), key)

report_league_results(league_data) ==
    LET teams == league_data.teams
        total_field == SumOf(teams, "field_players_count")
        total_gk == SumOf(teams, "goalkeepers_count")
    IN [league |-> league_data.league_name,
        teams_count |-> Len(teams),
        field_players |-> total_field,
        goalkeepers |-> total_gk,
        total_players |-> total_field + total_gk,
        errors |-> SumOf(teams, "field_players_failed")
                   + SumOf(teams, "goalkeepers_failed")]
\* The report of a mapped instance that has not run.
NoLeagueReport ==
    [league |-> "", teams_count |-> 0, field_players |-> 0,
     goalkeepers |-> 0, total_players |-> 0, errors |-> 0]

\* report_final_results: the numbers and the list of skipped leagues it
\* prints.
report_final_results(league_reports) ==
    LET successful_leagues ==
            SelectSeq(league_reports, LAMBDA r : r.teams_count > 0)
        skipped_leagues ==
            SelectSeq(league_reports, LAMBDA r : r.teams_count = 0)
    IN [total_leagues |-> Len(successful_leagues),
        total_skipped |-> Len(skipped_leagues),
        total_teams |-> Total(successful_leagues, "teams_count"),
        total_players |-> Total(successful_leagues, "total_players"),
        total_errors |-> Total(successful_leagues, "errors"),
        skipped_leagues |->
            [i \in DOMAIN skipped_leagues |-> skipped_leagues[i].league]]

DagInit ==
    /\ pc = "fetch"
    /\ all_page_tables = <<>>
    /\ key_tables = <<>>
    /\ rejected_tables = <<>>
    /\ found_by_markers = <<>>
    /\ loop_idx = 0
    /\ processed_tables = <<>>
    /\ merged_df = NoFrame
    /\ final_df = NoFrame
    /\ result = "pending"
    /\ csv_file = NoFrame
    /\ column_name = <<>>
    /\ normalized = <<>>
    /\ cache_file = [exists |-> FALSE, cached_at |-> 0, leagues |-> <<>>]
    /\ now = 1
    /\ loaded = [value |-> "None", leagues |-> <<>>]
    /\ discovered = NoDiscovery
    /\ SquadIdle
    /\ running = {}
    /\ finished = {}
    /\ xcom = NoXcom
    /\ ToolIdle

dag_frame == <<parse_vars, norm_vars, cache_vars, squad_vars, tool_vars>>

\* The scheduler runs an instance whose upstream tasks succeeded, when its
\* pool has an open slot.
StartTask ==
    /\ \E task \in Tasks :
       \E ti \in Instances(task) :
       \E fetching \in FetchChoices(task) :
           /\ \A up \in Upstream(task) : Done(up)
           /\ ti \notin finished
           /\ \A r \in running : InstanceOf(r) # ti
           /\ pool_of(task) = "fbref_pool" =>
                  SlotsInUse("fbref_pool") < FBREF_POOL_SLOTS
           /\ running' = running \cup
                  {[task |-> task, idx |-> ti.idx, fetching |-> fetching]}
    /\ UNCHANGED <<finished, xcom, dag_frame>>

\* The instance returns: it leaves its slot and is marked success.
Succeeds(ti) ==
    /\ running' = running \ {ti}
    /\ finished' = finished \cup {InstanceOf(ti)}
    /\ UNCHANGED dag_frame
RunningOf(task) == {ti \in running : ti.task = task}

DiscoverAllLeagues ==
    \E ti \in RunningOf("discover_all_leagues") :
    \E leagues \in DiscoveredLists :
        /\ xcom' = [xcom EXCEPT
               !.leagues = leagues,
               !.all_teams = [i \in DOMAIN leagues |-> <<>>]]
        /\ Succeeds(ti)

\* extract_league_teams gives the teams of the league, or [] when the page
\* cannot be read (skip_on_error).
ExtractLeagueTeams ==
    \E ti \in RunningOf("extract_league_teams") :
    \E teams \in {LeagueInfo[xcom.leagues[ti.idx]].teams, <<>>} :
        /\ xcom' = [xcom EXCEPT
               !.all_teams[ti.idx] =
                   with_league_context(teams, LeagueInfo[xcom.leagues[ti.idx]])]
        /\ Succeeds(ti)

FlattenTeamLists ==
    \E ti \in RunningOf("flatten_team_lists") :
        /\ xcom' = [xcom EXCEPT !.flattened_teams = flatten(xcom.all_teams)]
        /\ Succeeds(ti)

ChunkTeams ==
    \E ti \in RunningOf("chunk_teams") :
        LET batches == chunk_teams(xcom.flattened_teams, CHUNK_SIZE)
        IN /\ xcom' = [xcom EXCEPT
                  !.team_batches = batches,
                  !.batch_results = [i \in DOMAIN batches |-> <<>>]]
           /\ Succeeds(ti)

\* parse_team_players_batch returns one record per team.
ParseTeamPlayersBatch ==
    \E ti \in RunningOf("parse_team_players_batch") :
    \E outcome \in [DOMAIN xcom.team_batches[ti.idx] -> {"returned", "raised"}] :
        /\ xcom' = [xcom EXCEPT
               !.batch_results[ti.idx] =
                   batch_records(xcom.team_batches[ti.idx], outcome)]
        /\ Succeeds(ti)

FlattenBatchResults ==
    \E ti \in RunningOf("flatten_batch_results") :
        /\ xcom' = [xcom EXCEPT !.team_results = flatten(xcom.batch_results)]
        /\ Succeeds(ti)

GroupResultsByLeague ==
    \E ti \in RunningOf("group_results_by_league") :
        /\ xcom' = [xcom EXCEPT
               !.grouped = group_results_by_league(xcom.team_results)]
        /\ Succeeds(ti)

PrepareLeagueReportsData ==
    \E ti \in RunningOf("prepare_league_reports_data") :
        LET data == prepare_league_reports_data(xcom.grouped)
        IN /\ xcom' = [xcom EXCEPT
                  !.league_reports_data = data,
                  !.league_reports = [i \in DOMAIN data |-> NoLeagueReport]]
           /\ Succeeds(ti)

ReportLeagueResults ==
    \E ti \in RunningOf("report_league_results") :
        /\ xcom' = [xcom EXCEPT
               !.league_reports[ti.idx] =
                   report_league_results(xcom.league_reports_data[ti.idx])]
        /\ Succeeds(ti)

ReportFinalResults ==
    \E ti \in RunningOf("report_final_results") :
        /\ xcom' = [xcom EXCEPT
               !.final_report = report_final_results(xcom.league_reports)]
        /\ Succeeds(ti)

ExtractPremierLeagueSquads ==
    \E ti \in RunningOf("extract_premier_league_squads") :
    \E squads \in SquadLists :
        /\ xcom' = [xcom EXCEPT !.squads = squads]
        /\ Succeeds(ti)

\* parse_squad_players and report_results: their values reach no task of
\* the other DAG.
ParseSquadPlayers ==
    \E ti \in RunningOf("parse_squad_players") :
        /\ UNCHANGED xcom
        /\ Succeeds(ti)

ReportResults ==
    \E ti \in RunningOf("report_results") :
        /\ UNCHANGED xcom
        /\ Succeeds(ti)

DagNext ==
    \/ StartTask
    \/ DiscoverAllLeagues
    \/ ExtractLeagueTeams
    \/ FlattenTeamLists
    \/ ChunkTeams
    \/ ParseTeamPlayersBatch
    \/ FlattenBatchResults
    \/ GroupResultsByLeague
    \/ PrepareLeagueReportsData
    \/ ReportLeagueResults
    \/ ReportFinalResults
    \/ ExtractPremierLeagueSquads
    \/ ParseSquadPlayers
    \/ ReportResults
DagSpec == DagInit /\ [][DagNext]_vars

(***************************************************************************)
(* score_table_quality, called on every table of the pool under every      *)
(* category with the unique markers of the category.                       *)
(***************************************************************************)
\* parse_player, the normalizer and the league cache are not running.
PipelineIdle ==
    /\ pc = "fetch"
    /\ all_page_tables = <<>>
    /\ key_tables = <<>>
    /\ rejected_tables = <<>>
    /\ found_by_markers = <<>>
    /\ loop_idx = 0
    /\ processed_tables = <<>>
    /\ merged_df = NoFrame
    /\ final_df = NoFrame
    /\ result = "pending"
    /\ csv_file = NoFrame
    /\ column_name = <<>>
    /\ normalized = <<>>
    /\ cache_file = [exists |-> FALSE, cached_at |-> 0, leagues |-> <<>>]
    /\ now = 1
    /\ loaded = [value |-> "None", leagues |-> <<>>]
    /\ discovered = NoDiscovery

ScoreInit ==
    /\ PipelineIdle
    /\ SquadIdle
    /\ DagIdle
    /\ \E t \in TableIds, table_type \in Categories :
           scoring = [table |-> t, table_type |-> table_type,
                      done |-> FALSE, score |-> 0]
    /\ cleaning = NoCleaning
    /\ ScraperIdle

\* return min(score, 100), in units of 1/50 point
ScoreTableQuality ==
    /\ ~scoring.done
    /\ scoring' =
           [scoring EXCEPT
               !.done = TRUE,
               !.score = score_table_quality(scoring.table,
                                             scoring.table_type)]
    /\ UNCHANGED <<parse_vars, norm_vars, cache_vars, squad_vars, dag_vars,
                   cleaning, scraper_vars>>

ScoreNext == ScoreTableQuality
ScoreSpec == ScoreInit /\ [][ScoreNext]_vars

(***************************************************************************)
(* clean_dataframe, called on frames with the columns Season, Squad, Comp  *)
(* and every list of at most MaxCleanRows rows of four kinds.              *)
(***************************************************************************)
MaxCleanRows == 3

\* A season row, a repeated header row, a season row of a competition whose
\* name contains a header word, and a row without values.
RowKinds ==
    << [Season |-> <<"2","0","0","1">>, Squad |-> <<"A","r","s","e","n","a","l">>,
        Comp |-> <<"P","r","e","m","i","e","r"," ","L","e","a","g","u","e">>],
       [Season |-> <<"S","e","a","s","o","n">>, Squad |-> <<"S","q","u","a","d">>, Comp |-> <<"C","o","m","p">>],
       [Season |-> <<"2","0","0","3">>, Squad |-> <<"C","r","u","z","e","i","r","o">>,
        Comp |-> <<"C","a","m","p","e","o","n","a","t","o"," ","M","i","n","e","i","r","o">>],
       [Season |-> NaN, Squad |-> NaN, Comp |-> NaN] >>

RECURSIVE KindListsOfLen(_)
KindListsOfLen(n) ==
    IF n = 0 THEN {<<>>}
    ELSE {Append(l, k) : l \in KindListsOfLen(n - 1), k \in DOMAIN RowKinds}
KindLists == UNION {KindListsOfLen(n) : n \in 1..MaxCleanRows}

\* The frame with one row of each listed kind, indexed from 0.
FrameOf(kinds) ==
    [columns |->
         [k \in 1..3 |->
             [name |-> <<<<"S","e","a","s","o","n">>, <<"S","q","u","a","d">>, <<"C","o","m","p">>>>[k],
              origin |-> "standard",
              label |-> <<<<"S","e","a","s","o","n">>, <<"S","q","u","a","d">>, <<"C","o","m","p">>>>[k]]],
     rows |-> [i \in DOMAIN kinds |->
                  [index |-> i - 1, Season |-> RowKinds[kinds[i]].Season,
                   Squad |-> RowKinds[kinds[i]].Squad,
                   Comp |-> RowKinds[kinds[i]].Comp]],
     dtype |-> "object"]

CleanInit ==
    /\ PipelineIdle
    /\ SquadIdle
    /\ DagIdle
    /\ scoring = NoScoring
    /\ ScraperIdle
    /\ \E kinds \in KindLists :
           cleaning = [df |-> FrameOf(kinds), done |-> FALSE, out |-> NoFrame]

CleanDataframe ==
    /\ ~cleaning.done
    /\ cleaning' =
           [cleaning EXCEPT !.done = TRUE,
                            !.out = clean_dataframe(cleaning.df)]
    /\ UNCHANGED <<parse_vars, norm_vars, cache_vars, squad_vars, dag_vars,
                   scoring, scraper_vars>>

CleanNext == CleanDataframe
CleanSpec == CleanInit /\ [][CleanNext]_vars

(***************************************************************************)
(* core/scraper.py: one FBrefScraper whose fetch_page is called again and  *)
(* again.  Time is counted in ticks of 0.2 seconds; a timestamp is kept as *)
(* its age, the time since it was taken, and an age above the window of 60 *)
(* seconds is kept as WINDOW + 1.                                          *)
(***************************************************************************)
Seconds(n) == 5 * n
WINDOW == Seconds(60)
MIN_REQUEST_DELAY == Seconds(6)
MAX_REQUEST_DELAY == Seconds(8)
MAX_REQUESTS_PER_MINUTE == 10
\* stop_after_attempt(5)
MAX_ATTEMPTS == 5

\* random.uniform(MIN_REQUEST_DELAY, MAX_REQUEST_DELAY) and
\* random.uniform(0.1, 0.2), in percent: the draws that give the shortest
\* and the longest delay.
DelayDraws ==
    {[base_delay |-> MIN_REQUEST_DELAY, jitter_percent |-> 10],
     [base_delay |-> MAX_REQUEST_DELAY, jitter_percent |-> 20]}
\* The time the caller lets pass before it calls fetch_page again, and the
\* time the site takes to answer: none, which brings two requests as close
\* to each other as they can be.
CallerPauses == {0}
Latencies == {0}
\* response.status_code
Statuses == {200, 403, 429, 500}
\* int(response.headers.get('Retry-After', 300))
RetryAfters == {0, Seconds(300)}

\* The ages after d ticks more.
Older(ages, d) == [i \in DOMAIN ages |-> Min(ages[i] + d, WINDOW + 1)]
\* The timestamps that are at most 60 seconds old.
InWindow(ages) == SelectSeq(ages, LAMBDA a : a <= WINDOW)
\* deque(maxlen=MAX_REQUESTS_PER_MINUTE).append(time.time())
deque_append(times) ==
    LET appended == Append(times, 0)
    IN IF Len(appended) > MAX_REQUESTS_PER_MINUTE THEN Tail(appended)
       ELSE appended

\* The delay without the sleep: requests follow each other at once.
no_delay(base_delay, jitter_percent) == 0
\* adaptive_delay: base_delay + base_delay * jitter_percent
adaptive_delay(base_delay, jitter_percent) ==
    base_delay + (base_delay * jitter_percent) \div 100

\* What enforce_rate_limit leaves of the deque, and the time it sleeps.
enforce_rate_limit(times) ==
    LET kept == InWindow(times)
    IN IF Len(kept) >= MAX_REQUESTS_PER_MINUTE
       THEN [request_times |-> <<>>,
             wait_time |-> WINDOW - kept[1] + Seconds(2)]
       ELSE [request_times |-> kept, wait_time |-> 0]

\* wait_exponential(multiplier=1, min=4, max=60) before the next attempt.
RECURSIVE Pow2(_)
Pow2(n) == IF n = 0 THEN 1 ELSE 2 * Pow2(n - 1)
wait_exponential(attempt) ==
    LET exp == Seconds(Pow2(attempt - 1))
    IN IF exp < Seconds(4) THEN Seconds(4) ELSE Min(exp, Seconds(60))

ScraperInit ==
    /\ PipelineIdle
    /\ SquadIdle
    /\ DagIdle
    /\ scoring = NoScoring
    /\ cleaning = NoCleaning
    /\ ScraperIdle

scraper_frame ==
    <<parse_vars, norm_vars, cache_vars, squad_vars, dag_vars, scoring,
      cleaning>>

\* The caller calls fetch_page: the first attempt begins.
CallFetchPage ==
    /\ spc = "idle"
    /\ \E pause \in CallerPauses :
           /\ request_times' = Older(request_times, pause)
           /\ http_sent' = InWindow(Older(http_sent, pause))
    /\ attempt_number' = 1
    /\ spc' = "enforce"
    /\ UNCHANGED scraper_frame

\* self.enforce_rate_limit()
EnforceRateLimit ==
    /\ spc = "enforce"
    /\ LET r == enforce_rate_limit(request_times)
       IN /\ request_times' = r.request_times
          /\ http_sent' = InWindow(Older(http_sent, r.wait_time))
    /\ spc' = "delay"
    /\ UNCHANGED <<attempt_number, scraper_frame>>

\* time.sleep(self.adaptive_delay()), then self.scraper.get(url, ...) sends
\* the request.
SendRequest ==
    /\ spc = "delay"
    /\ \E draw \in DelayDraws :
           LET delay == adaptive_delay(draw.base_delay, draw.jitter_percent)
           IN /\ request_times' = Older(request_times, delay)
              /\ http_sent' = Append(InWindow(Older(http_sent, delay)), 0)
    /\ spc' = "sent"
    /\ UNCHANGED <<attempt_number, scraper_frame>>

\* The response arrives and its time is registered; 200 returns, 403 goes
\* on to the homepage, 429 sleeps Retry-After and raises, every other
\* error raises.
ReceiveResponse ==
    /\ spc = "sent"
    /\ \E latency \in Latencies, status \in Statuses,
          retry_after \in RetryAfters :
           LET slept == IF status = 429 THEN retry_after ELSE 0
           IN /\ request_times' =
                     Older(deque_append(Older(request_times, latency)), slept)
              /\ http_sent' = InWindow(Older(http_sent, latency + slept))
              /\ spc' = CASE status = 200 -> "idle"
                          [] status = 403 -> "forbidden"
                          [] OTHER -> "retry"
    /\ UNCHANGED <<attempt_number, scraper_frame>>

\* self.scraper.get raises (no answer within the timeout): no timestamp is
\* registered.
RequestRaises ==
    /\ spc = "sent"
    /\ \E latency \in {0, Seconds(30)} :
           /\ request_times' = Older(request_times, latency)
           /\ http_sent' = InWindow(Older(http_sent, latency))
    /\ spc' = "retry"
    /\ UNCHANGED <<attempt_number, scraper_frame>>

\* 403: time.sleep(random.uniform(3, 5)), then the homepage is requested.
VisitHomepage ==
    /\ spc = "forbidden"
    /\ \E slept \in {Seconds(3), Seconds(5)} :
           /\ request_times' = Older(request_times, slept)
           /\ http_sent' = Append(InWindow(Older(http_sent, slept)), 0)
    /\ spc' = "homepage"
    /\ UNCHANGED <<attempt_number, scraper_frame>>

\* After the homepage: 2 to 4 seconds when it answered 200, then 90 to 120
\* seconds, then the exception that makes the decorator retry.
LeaveHomepage ==
    /\ spc = "homepage"
    /\ \E slept \in {0, Seconds(2), Seconds(4)},
          wait_time \in {Seconds(90), Seconds(120)} :
           /\ request_times' = Older(request_times, slept + wait_time)
           /\ http_sent' = InWindow(Older(http_sent, slept + wait_time))
    /\ spc' = "retry"
    /\ UNCHANGED <<attempt_number, scraper_frame>>

\* The decorator sleeps and calls fetch_page again.
RetryAttempt ==
    /\ spc = "retry"
    /\ attempt_number < MAX_ATTEMPTS
    /\ request_times' =
           Older(request_times, wait_exponential(attempt_number))
    /\ http_sent' =
           InWindow(Older(http_sent, wait_exponential(attempt_number)))
    /\ attempt_number' = attempt_number + 1
    /\ spc' = "enforce"
    /\ UNCHANGED scraper_frame

\* The last attempt failed: the decorator raises to the caller.
GiveUp ==
    /\ spc = "retry"
    /\ attempt_number = MAX_ATTEMPTS
    /\ spc' = "idle"
    /\ UNCHANGED <<request_times, http_sent, attempt_number, scraper_frame>>

ScraperNext ==
    \/ CallFetchPage
    \/ EnforceRateLimit
    \/ SendRequest
    \/ ReceiveResponse
    \/ RequestRaises
    \/ VisitHomepage
    \/ LeaveHomepage
    \/ RetryAttempt
    \/ GiveUp
ScraperSpec == ScraperInit /\ [][ScraperNext]_vars

(***************************************************************************)
(* The properties of the pipeline.                                         *)
(***************************************************************************)
\* The stages after the check of the mandatory table.
PostCheck == {"process", "merge", "cleanup", "rename", "save", "done"}
\* The call has ended without a frame, a merge or a file.
FailedWithoutMerge ==
    /\ pc = "done"
    /\ result = "None"
    /\ merged_df = NoFrame
    /\ csv_file = NoFrame
NoDuplicateNames(df) ==
    \A i, j \in DOMAIN df.columns :
        df.columns[i].name = df.columns[j].name => i = j
\* The flattened, fixed labels of a table of the pool.
LabelsOf(t) ==
    fix_column_names(process_multiindex_columns(TablePool[t].columns))

\* C1: no table with fewer than 10 rows or fewer than 10 columns is ever
\* assigned a category: every table the classification holds, whichever
\* pass put it there, has at least 10 rows and at least 10 columns.
C1_MinimumSizeGate ==
    \A i \in DOMAIN key_tables :
        /\ NumRows(key_tables[i].table) >= MIN_ROWS
        /\ NumCols(key_tables[i].table) >= MIN_COLS

\* C2: the merge step is reached if and only if 'standard' is in the
\* classification after the primary pass, the fallback pass and conflict
\* resolution: with 'standard' the call goes on to process and merge
\* whatever was classified; without it the call returns None, merges
\* nothing and writes no file.
C2_MergeIffStandard ==
    pc \in PostCheck =>
        /\ HasKey(key_tables, "standard")
               <=> (pc \in {"process", "merge"} \/ merged_df # NoFrame)
        /\ ~HasKey(key_tables, "standard") => FailedWithoutMerge

\* A page whose standard table was merged with one other category only.
C2_Witness ==
    /\ pc = "done"
    /\ result = "DataFrame"
    /\ merged_df # NoFrame
    /\ KeysOf(key_tables) = {"standard", "misc"}

\* C3 as stated: if no table of the page satisfies the 'standard' predicate
\* (at least 10 rows and 10 columns, header text with 'gls', 'ast' and one
\* of 'season' or 'squad'), parse_player fails and performs no merge.
C3_NoStandardPredicateFails ==
    (/\ pc \in PostCheck
     /\ ~\E i \in DOMAIN all_page_tables :
            /\ PrimaryEligible(all_page_tables[i])
            /\ FirstMatch[all_page_tables[i]] = "standard")
    => FailedWithoutMerge

\* C3 amended: if no table of the page has at least 10 rows and at least
\* two of the unique markers of 'standard' in its header text,
\* parse_player fails and performs no merge.
C3_NoStandardMarkersFails ==
    (/\ pc \in PostCheck
     /\ ~\E i \in DOMAIN all_page_tables :
            /\ NumRows(all_page_tables[i]) >= MIN_ROWS
            /\ marker_count[all_page_tables[i]]["standard"] >= MIN_MARKERS)
    => FailedWithoutMerge

\* A page with classified tables, none of them with two standard markers,
\* that ended in failure.
C3_Witness ==
    /\ FailedWithoutMerge
    /\ Len(key_tables) > 0
    /\ \A i \in DOMAIN all_page_tables :
           marker_count[all_page_tables[i]]["standard"] < MIN_MARKERS

\* C4: no two columns of a merged output have the same name: not after
\* merge_tables and final_cleanup, and not in the frame parse_player
\* saves after the final renames.
C4_NoDuplicateColumns ==
    /\ pc = "rename" => NoDuplicateNames(final_df)
    /\ csv_file # NoFrame => NoDuplicateNames(csv_file)

\* C5: after process_table_columns and merge_tables every column name of
\* the merged table is one of the identity keys, or comes from a no-prefix
\* category, or ends with '_<category>' for a category of the input.
IsIdentityKey(name) == name \in Range(KEY_COLUMNS_WITH_MP)
C5_PrefixInvariant ==
    pc = "cleanup" =>
        \A k \in DOMAIN merged_df.columns :
            LET col == merged_df.columns[k]
            IN \/ IsIdentityKey(col.name)
               \/ col.origin \in no_prefix_tables
               \/ \E i \in DOMAIN key_tables :
                      endswith(col.name,
                               <<"_">> \o CategoryStr[key_tables[i].name])

\* C6 as stated: in the merged output no column that comes from a table
\* other than 'playing_time' has a name matching the Playing-Time
\* pattern set.
C6_NoPlayingTimeNames ==
    pc = "cleanup" =>
        \A k \in DOMAIN merged_df.columns :
            merged_df.columns[k].origin # "playing_time"
                => ~IsPlayingTimeColumn(merged_df.columns[k].name)

\* C6 amended: in the merged output, and in every frame made from it, no
\* column that comes from a table other than 'playing_time' had, before
\* its category suffix was appended, a name matching the Playing-Time
\* pattern set.
NoPlayingTimeLabels(df) ==
    \A k \in DOMAIN df.columns :
        df.columns[k].origin # "playing_time"
            => ~IsPlayingTimeColumn(df.columns[k].label)
C6_NoPlayingTimeLabels ==
    /\ NoPlayingTimeLabels(merged_df)
    /\ NoPlayingTimeLabels(final_df)
    /\ NoPlayingTimeLabels(csv_file)

\* A merge of two tables, one of them not 'playing_time' and with a
\* Playing-Time column in its header.
C6_Witness ==
    /\ pc = "cleanup"
    /\ Len(key_tables) = 2
    /\ \E i \in DOMAIN key_tables :
           /\ key_tables[i].name \notin {"playing_time", "standard"}
           /\ \E k \in DOMAIN LabelsOf(key_tables[i].table) :
                  IsPlayingTimeColumn(LabelsOf(key_tables[i].table)[k])

\* C7: normalization is idempotent: convert_to_snake_case applied to its
\* own output returns that output.
C7_Idempotent ==
    Len(normalized) >= 2 => normalized[2] = normalized[1]

\* C8: the page of the example, a 25-row standard table {Season, Squad,
\* Gls, Ast} and a 25-row shooting table {Season, Squad, Sh, SoT} with the
\* same keys, in either order, is classified 'standard' and 'shooting' and
\* gives one row per row of the standard table with the columns season,
\* squad, gls, ast, sh_sh, sot_sh, each once.
ExamplePages == {<<2, 3>>, <<3, 2>>}
C8_ExampleMerge ==
    (all_page_tables \in ExamplePages /\ pc \in PostCheck) =>
        /\ KeysOf(key_tables) = {"standard", "shooting"}
        /\ ValueOf(key_tables, "standard").table = 2
        /\ ValueOf(key_tables, "shooting").table = 3
        /\ pc = "done" =>
              /\ result = "DataFrame"
              /\ Len(csv_file.rows) = NumRows(2)
              /\ Len(csv_file.columns) = 6
              /\ Range(ColumnNames(csv_file)) =
                     {<<"s","e","a","s","o","n">>, <<"s","q","u","a","d">>, <<"g","l","s">>, <<"a","s","t">>, <<"s","h","_","s","h">>,
                      <<"s","o","t","_","s","h">>}

C8_Witness ==
    /\ all_page_tables = <<3, 2>>
    /\ pc = "done"
    /\ result = "DataFrame"
    /\ Len(csv_file.rows) = 25

\* The positions (from 1) of the eligible tables that satisfy the
\* 'possession' predicate, and of those the primary pass's chain of
\* predicates classifies as 'possession'.
PossessionPredicateAt(page) ==
    {i \in DOMAIN page :
        PrimaryEligible(page[i]) /\ possession_predicate(cols_str[page[i]])}
PossessionMatchesAt(page) ==
    {i \in DOMAIN page :
        PrimaryEligible(page[i]) /\ FirstMatch[page[i]] = "possession"}
MoreMarkersAndRows(page, j, i) ==
    /\ marker_count[page[j]]["possession"] > marker_count[page[i]]["possession"]
    /\ NumRows(page[j]) > NumRows(page[i])
    /\ score_table_quality(page[j], "possession")
           > score_table_quality(page[i], "possession")

C10_NoMalformedEntryLoaded ==
    loaded.value = "list" =>
        \A k \in DOMAIN loaded.leagues :
            is_valid_season_url(loaded.leagues[k].season_url)

(***************************************************************************)
(* The properties of the squad drivers and of the batch task.              *)
(***************************************************************************)
\* A team call is between its start and its return.
InTeamCall == tpc # "idle"
\* The field players the squad page of the current team lists.
Roster == Range(CurrentPage.field_links)
\* The file of the player was in the directory when the team call started.
HadFile(player_name) == field_player_file(player_name) \in start_files
FieldFetched(player_name) ==
    [kind |-> "field", name |-> player_name] \in fetch_log

\* C11: for every roster player whose file <normalize_name(name)>.csv was in
\* the field-player output directory when the run started, parse_squad
\* fetches no page of that player and does not write the file.
C11_ExistingPlayersUntouched ==
    InTeamCall =>
        \A player_name \in Roster :
            HadFile(player_name) =>
                /\ ~FieldFetched(player_name)
                /\ field_player_file(player_name) \notin write_log
\* The loop of parse_squad has passed a player whose file an earlier run
\* had written.
C11_Witness ==
    /\ tpc = "field"
    /\ link_idx > 1
    /\ HadFile(player_links[1])
    /\ runs > 1

\* The goalkeepers the squad page of the current team lists.
Goalkeepers == Range(CurrentPage.goalkeeper_links)
GoalkeeperFetched(player_name) ==
    [kind |-> "gk", name |-> player_name] \in fetch_log

\* C12: for every goalkeeper link whose output file was present when the
\* run started, parse_squad_goalkeepers fetches no page of that goalkeeper.
C12_ExistingGoalkeepersSkipped ==
    InTeamCall =>
        \A player_name \in Goalkeepers :
            goalkeeper_file(player_name) \in start_files =>
                ~GoalkeeperFetched(player_name)

\* The record of a team call that raised because no player was parsed.
IsNoPlayersRecord(r) == "error" \in r.keys /\ r.error = NoPlayersMessage

\* C13: when a team call finds zero players without a parser raising, the
\* task instance does not complete with a recorded result for that team.
C13_ZeroPlayersFailsTask ==
    task_state = "success" =>
        \A i \in DOMAIN results : ~IsNoPlayersRecord(results[i])

\* The team at position i of the batch.
BatchTeam(i) == TeamInfo[team_batch[i]]
\* The record is the one appended by the exception handler of the loop.
IsErrorRecord(r) == "error" \in r.keys

\* C15: an exception in one team call never ends the batch: the task
\* returns one record per team of the batch, in the order of the batch, and
\* the record of a team whose call raised has an error and total_players
\* 0; the other records have no error and at least one player.
C15_OneRecordPerTeam ==
    task_state = "success" =>
        /\ Len(results) = Len(team_batch)
        /\ \A i \in DOMAIN results :
               /\ results[i].team = BatchTeam(i).team_name
               /\ results[i].league_name = BatchTeam(i).league_name
               /\ IsErrorRecord(results[i]) => results[i].total_players = 0
               /\ ~BatchTeam(i).has_squad_url => IsErrorRecord(results[i])
               /\ ~IsErrorRecord(results[i]) => results[i].total_players > 0
\* A batch whose first team call raised and whose second returned.
C15_Witness ==
    /\ task_state = "success"
    /\ Len(results) = 2
    /\ IsErrorRecord(results[1])
    /\ ~IsErrorRecord(results[2])

\* The name of the file of a player: the normalized name and '.csv'.
IsPlayerFileName(file_name, names) ==
    \E player_name \in names : file_name = normalize_name(player_name) \o <<".","c","s","v">>

\* C18: every player file written during a team call lies under the
\* directory of the team: field players in <base>/<league>/<team>/
\* field_players/ and goalkeepers in <base>/<league>/<team>/goalkeepers/,
\* named by the normalized player name.
C18_FilesUnderTeamDirectory ==
    InTeamCall =>
        \A f \in write_log :
            \/ /\ f.dir = field_players_dir(CurrentTeam)
               /\ IsPlayerFileName(f.name, Roster)
            \/ /\ f.dir = goalkeepers_dir(CurrentTeam)
               /\ IsPlayerFileName(f.name, Goalkeepers)


(***************************************************************************)
(* The properties of the DAG runs.                                         *)
(***************************************************************************)
FinalReportPrinted ==
    [task |-> "report_final_results", idx |-> 1] \in finished
\* The team extraction of the i-th discovered league returned no team.
YieldedNoTeams(i) ==
    /\ [task |-> "extract_league_teams", idx |-> i] \in finished
    /\ xcom.all_teams[i] = <<>>

\* C14: a league whose team extraction yields zero teams is listed among
\* the skipped leagues of the final report of report_final_results.
C14_EmptyLeagueListedAsSkipped ==
    FinalReportPrinted =>
        \A i \in DOMAIN xcom.leagues :
            YieldedNoTeams(i) =>
                \E k \in DOMAIN xcom.final_report.skipped_leagues :
                    xcom.final_report.skipped_leagues[k]
                        = LeagueInfo[xcom.leagues[i]].name

\* The running instances whose callable requests pages of the site.
FetchPerforming == {ti \in running : ti.fetching}

\* C16: every task that fetches pages runs in the single-slot pool, so at
\* most one fetch-performing task instance is running at any time.
C16_OneFetchAtATime == Cardinality(FetchPerforming) <= 1


(***************************************************************************)
(* Further properties of the pipeline.                                     *)
(***************************************************************************)
\* C17: parse_player persists no partial result: an execution that returns
\* None has written no file, and a file has been written only by an
\* execution that returns the frame.
C17_FileOnlyOnSuccess ==
    /\ result = "None" => csv_file = NoFrame
    /\ csv_file # NoFrame => result = "DataFrame" /\ csv_file = final_df
\* An execution that fetched a page with tables and returned None.
C17_Witness ==
    /\ pc = "done"
    /\ result = "None"
    /\ Len(all_page_tables) > 0
    /\ Len(key_tables) > 0

\* The columns of a frame that come from the table of a category.
ColumnsFrom(df, table_name) ==
    SelectSeq(df.columns, LAMBDA c : c.origin = table_name)
ProcessedFrame(table_name) ==
    processed_tables[CHOOSE k \in DOMAIN processed_tables :
                         processed_tables[k].name = table_name].df
ProcessedNames == {processed_tables[k].name : k \in DOMAIN processed_tables}

\* C19: for every mapping that contains 'standard', at whatever position,
\* merge_tables takes the 'standard' table as base and joins every other
\* table of the mapping into the result: only the base table is skipped.
C19_OnlyBaseSkipped ==
    (pc = "cleanup" /\ "standard" \in ProcessedNames) =>
        /\ SubSeq(merged_df.columns, 1,
                  Len(ProcessedFrame("standard").columns))
               = ProcessedFrame("standard").columns
        /\ \A table_name \in ProcessedNames \ {"standard"} :
               Len(ColumnsFrom(merged_df, table_name)) > 0

\* The predicate of each category, as the primary pass states it.
Satisfies(c, s) ==
    CASE c = "standard" ->
           (In(<<"s","e","a","s","o","n">>, s) \/ In(<<"s","q","u","a","d">>, s))
           /\ In(<<"g","l","s">>, s) /\ In(<<"a","s","t">>, s)
      [] c = "shooting" ->
           In(<<"s","h","o","o","t","i","n","g">>, s) \/ (In(<<"s","h">>, s) /\ In(<<"s","o","t">>, s))
      [] c = "passing" ->
           In(<<"p","a","s","s","i","n","g">>, s) \/ (In(<<"c","m","p">>, s) /\ In(<<"a","t","t">>, s))
      [] c = "pass_types" -> In(<<"p","a","s","s"," ","t","y","p","e","s">>, s) \/ In(<<"l","i","v","e">>, s)
      [] c = "gca" ->
           AnyIn(<<<<"g","c","a">>, <<"s","c","a">>, <<"g","o","a","l"," ","c","r","e","a","t","i","o","n">>, <<"s","h","o","t"," ","c","r","e","a","t","i","o","n">>,
                   <<"g","c","a","9","0">>, <<"s","c","a","9","0">>, <<"p","a","s","s","l","i","v","e">>, <<"p","a","s","s","d","e","a","d">>>>, s)
      [] c = "defense" -> In(<<"d","e","f","e","n","s","e">>, s) \/ In(<<"t","k","l">>, s)
      [] c = "playing_time" ->
           AnyIn(<<<<"m","n","/","m","p">>, <<"m","i","n","%">>, <<"t","e","a","m"," ","s","u","c","c","e","s","s">>, <<"p","p","m">>>>, s)
           /\ ~In(<<"t","o","u","c","h","e","s">>, s)
      [] c = "possession" -> possession_predicate(s)
      [] c = "misc" ->
           AnyIn(<<<<"m","i","s","c">>, <<"f","l","s">>, <<"f","l","d">>, <<"o","f","f">>, <<"c","r","s">>, <<"t","k","l","w">>,
                   <<"p","k","w","o","n">>, <<"p","k","c","o","n">>, <<"o","g">>, <<"r","e","c","o","v">>, <<"a","e","r","i","a","l">>,
                   <<"w","o","n">>, <<"l","o","s","t">>>>, s)
\* The order the claim gives.
PredicateOrder ==
    <<"standard", "shooting", "passing", "pass_types", "gca", "defense",
      "playing_time", "possession", "misc">>
\* The categories whose predicate each table of the pool satisfies.
SatisfiedBy ==
    [t \in TableIds |->
        {k \in DOMAIN PredicateOrder : Satisfies(PredicateOrder[k], cols_str[t])}]
\* The first category of the order whose predicate each table satisfies.
FirstInOrder ==
    [t \in TableIds |->
        IF SatisfiedBy[t] = {} THEN "none"
        ELSE PredicateOrder[CHOOSE k \in SatisfiedBy[t] :
                                \A j \in SatisfiedBy[t] : k <= j]]
\* The 1-based positions of the eligible tables of a page whose first
\* matching predicate is category c.
FirstMatchesAt(page, c) ==
    {i \in DOMAIN page : PrimaryEligible(page[i]) /\ FirstInOrder[page[i]] = c}

\* C20: after the primary pass no position holds two categories, and each
\* category is held by the lowest-position eligible table whose first
\* matching predicate, in the order standard, shooting, passing,
\* pass_types, gca, defense, playing_time, possession, misc, is that
\* category; a category no eligible table has as first match is not held.
C20_FirstPredicateLowestPosition ==
    pc = "fallback" =>
        /\ \A i, j \in DOMAIN key_tables :
               key_tables[i].pos = key_tables[j].pos => i = j
        /\ \A c \in Categories :
               IF FirstMatchesAt(all_page_tables, c) = {}
               THEN ~HasKey(key_tables, c)
               ELSE /\ HasKey(key_tables, c)
                    /\ ValueOf(key_tables, c).pos + 1
                           \in FirstMatchesAt(all_page_tables, c)
                    /\ \A i \in FirstMatchesAt(all_page_tables, c) :
                           ValueOf(key_tables, c).pos <= i - 1
                    /\ ValueOf(key_tables, c).table
                           = all_page_tables[ValueOf(key_tables, c).pos + 1]
\* Two eligible tables with the same first match, which satisfy a later
\* predicate of the order as well; the second is left unclassified.
C20_Witness ==
    /\ pc = "fallback"
    /\ Len(key_tables) = 1
    /\ \E c \in Categories :
           /\ Cardinality(FirstMatchesAt(all_page_tables, c)) = 2
           /\ \A i \in FirstMatchesAt(all_page_tables, c) :
                  Cardinality(SatisfiedBy[all_page_tables[i]]) > 1


(***************************************************************************)
(* The properties of the fallback pass and of conflict resolution.         *)
(***************************************************************************)
\* find_tables_by_unique_markers has returned and no found table has been
\* added yet: key_tables is still the result of the primary pass.
FallbackReturned == pc = "add_found" /\ loop_idx = 0
\* The positions (from 1) of the tables with two unique markers of c.
MarkedAt(page, c) ==
    {i \in DOMAIN page : marker_count[page[i]][c] >= 2}
\* Those of them with at least 10 rows.
SizedMarkedAt(page, c) ==
    {i \in MarkedAt(page, c) : NumRows(page[i]) >= 10}
\* Position i is maximal in S for (marker_count, row_count), and the
\* earliest of the maximal ones.
MaximalIn(page, c, i, S) ==
    \A j \in S \ {i} :
        \/ marker_count[page[j]][c] < marker_count[page[i]][c]
        \/ /\ marker_count[page[j]][c] = marker_count[page[i]][c]
           /\ NumRows(page[j]) < NumRows(page[i])
        \/ /\ marker_count[page[j]][c] = marker_count[page[i]][c]
           /\ NumRows(page[j]) = NumRows(page[i])
           /\ i < j

\* C21 as stated: find_tables_by_unique_markers returns tables for
\* categories missing after the primary pass only; a returned table has at
\* least 2 unique markers of its category and is maximal for
\* (marker_count, row_count) among all tables with at least 2 such markers,
\* the earliest position winning exact ties.
C21_BestAmongMarked ==
    FallbackReturned =>
        \A k \in DOMAIN found_by_markers :
            LET e == found_by_markers[k] IN
            /\ ~HasKey(key_tables, e.name)
            /\ e.pos + 1 \in MarkedAt(all_page_tables, e.name)
            /\ e.table = all_page_tables[e.pos + 1]
            /\ MaximalIn(all_page_tables, e.name, e.pos + 1,
                         MarkedAt(all_page_tables, e.name))

\* C21 amended: the candidates are the tables with at least 10 rows and at
\* least 2 unique markers of the category; every missing category with a
\* candidate gets exactly one table, the maximal candidate for
\* (marker_count, row_count), the earliest position winning exact ties, and
\* no other category gets one.
C21_BestAmongSizedCandidates ==
    FallbackReturned =>
        /\ \A k \in DOMAIN found_by_markers :
               LET e == found_by_markers[k] IN
               /\ ~HasKey(key_tables, e.name)
               /\ e.pos + 1 \in SizedMarkedAt(all_page_tables, e.name)
               /\ e.table = all_page_tables[e.pos + 1]
               /\ MaximalIn(all_page_tables, e.name, e.pos + 1,
                            SizedMarkedAt(all_page_tables, e.name))
               /\ \A m \in DOMAIN found_by_markers :
                      found_by_markers[m].name = e.name => m = k
        /\ \A c \in Categories :
               (~HasKey(key_tables, c)
                /\ SizedMarkedAt(all_page_tables, c) # {})
                   => HasKey(found_by_markers, c)
\* A category found among two candidates of which the later one has no more
\* markers and more rows.
C21_Witness ==
    /\ FallbackReturned
    /\ \E k \in DOMAIN found_by_markers :
           LET c == found_by_markers[k].name IN
           \E i, j \in SizedMarkedAt(all_page_tables, c) :
               /\ i < j
               /\ marker_count[all_page_tables[i]][c]
                      > marker_count[all_page_tables[j]][c]
               /\ NumRows(all_page_tables[i]) < NumRows(all_page_tables[j])


\* The loop over found_by_markers is about to handle an entry whose
\* position is already held by a category.
NextFound == found_by_markers[loop_idx + 1]
ConflictAhead ==
    /\ pc = "add_found"
    /\ loop_idx < Len(found_by_markers)
    /\ \E i \in DOMAIN key_tables : key_tables[i].pos = NextFound.pos
\* The category that holds a position, and whether a category holds it.
HolderOf(kt, pos) == kt[CHOOSE i \in DOMAIN kt : kt[i].pos = pos].name
Holds(kt, name, pos) ==
    \E i \in DOMAIN kt : kt[i].name = name /\ kt[i].pos = pos

\* C22: when the fallback pass proposes a table at a position already held
\* by another category, exactly one of the two categories holds the
\* position after the conflict is resolved: the proposed one if its quality
\* score is higher, the existing one otherwise (equal scores included).
C22_HigherScoreHoldsPosition ==
    [][ConflictAhead =>
          LET new == NextFound
              existing == HolderOf(key_tables, new.pos)
              new_wins ==
                  score_table_quality(new.table, new.name)
                      > score_table_quality(all_page_tables[new.pos + 1],
                                            existing)
          IN /\ Holds(key_tables', new.name, new.pos) <=> new_wins
             /\ Holds(key_tables', existing, new.pos) <=> ~new_wins
             /\ \A i, j \in DOMAIN key_tables' :
                    (key_tables'[i].pos = new.pos
                     /\ key_tables'[j].pos = new.pos) => i = j]_vars
\* A conflict of equal scores has been resolved: the proposed category was
\* rejected and the existing one holds the position.
C22_Witness ==
    /\ pc = "add_found"
    /\ loop_idx > 0
    /\ Len(rejected_tables) > 0
    /\ LET new == found_by_markers[loop_idx] IN
       /\ rejected_tables[Len(rejected_tables)] = new.name
       /\ \E i \in DOMAIN key_tables :
              /\ key_tables[i].pos = new.pos
              /\ score_table_quality(new.table, key_tables[i].name)
                     = score_table_quality(new.table, new.name)


\* The classification of parse_player is complete.
Classified == pc = "check"
\* The positions (from 1) of the tables with at least 10 rows and two
\* unique markers of c that no category holds.
FreeCandidatesAt(page, kt, c) ==
    {i \in SizedMarkedAt(page, c) :
        ~\E k \in DOMAIN kt : kt[k].pos = i - 1}

\* C23: a category that lost conflict resolution is assigned by the end of
\* classification whenever some unoccupied table with at least 10 rows
\* matches at least 2 of its unique markers.
C23_RejectedRetriedElsewhere ==
    Classified =>
        \A k \in DOMAIN rejected_tables :
            FreeCandidatesAt(all_page_tables, key_tables, rejected_tables[k])
                # {}
            => HasKey(key_tables, rejected_tables[k])


\* C24: at every point after the primary pass, through the additions of
\* the fallback pass, conflict resolution and the re-search of the rejected
\* categories, no two categories of the classification have the same page
\* position.
C24_PositionsDistinct ==
    pc \notin {"fetch", "identify"} =>
        \A i, j \in DOMAIN key_tables :
            i # j => key_tables[i].pos # key_tables[j].pos
\* The re-search has just given a rejected category a free position, next
\* to the category that won the conflict.
C24_Witness ==
    /\ pc = "research"
    /\ loop_idx > 0
    /\ HasKey(key_tables, rejected_tables[loop_idx])
    /\ Len(key_tables) > 1


(***************************************************************************)
(* The properties of score_table_quality.                                  *)
(***************************************************************************)
\* The value the claim gives, in units of 1/50 point, for a table with
\* the given number of marker matches and rows and the given bonus.
ClaimedScore(matches, bonus, rows) ==
    LET size == IF 5 * rows < 500 THEN 5 * rows ELSE 500
        raw == 50 * (20 * matches + bonus) + size
                   - (IF rows < 15 THEN 50 * 20 ELSE 0)
    IN IF raw < 50 * 100 THEN raw ELSE 50 * 100

\* C25: score_table_quality returns a value from 0 to 100 inclusive, which
\* is 20 x marker matches + the category bonus (15 or 0)
\* + min(rows / 10, 10) - (20 if rows < 15), capped at 100.
C25_ScoreInRange ==
    scoring.done =>
        /\ scoring.score >= 0
        /\ scoring.score <= 50 * 100
        /\ \E bonus \in {0, 15} :
               scoring.score =
                   ClaimedScore(marker_count[scoring.table][scoring.table_type],
                                bonus, NumRows(scoring.table))


(***************************************************************************)
(* The properties of the dictionary step of the normalizer.                *)
(***************************************************************************)
\* The name the dictionary step is given: the label after the conversion of
\* the symbols.
BeforeDictionary == convert_symbols(column_name)
\* A key of the dictionary occurs in the name and is not the whole name.
HasKeyAsProperSubstring(name) ==
    \E k \in DOMAIN SNAKE_CASE_REPLACEMENTS :
        /\ In(SNAKE_CASE_REPLACEMENTS[k][1], name)
        /\ SNAKE_CASE_REPLACEMENTS[k][1] # name

\* C26: the rename dictionary is applied by exact match only: a name that
\* contains a key of the dictionary as a proper substring, and is not equal
\* to it, is left unchanged by the dictionary step of the normalization.
C26_DictionaryExactMatchOnly ==
    (Len(normalized) > 0 /\ HasKeyAsProperSubstring(BeforeDictionary))
        => normalized[1] = BeforeDictionary


(***************************************************************************)
(* The properties of clean_dataframe.                                      *)
(***************************************************************************)
AggregateTokens ==
    {<<"s","e","a","s","o","n">>, <<"s","e","a","s","o","n","s">>, <<"c","l","u","b">>, <<"c","l","u","b","s">>, <<"t","o","t","a","l">>, <<"l","e","a","g","u","e">>}
HeaderTokens ==
    {<<"c","o","m","p">>, <<"c","o","m","p","e","t","i","t","i","o","n">>, <<"c","o","u","n","t","r","y">>, <<"s","q","u","a","d">>, <<"m","p">>, <<"m","i","n">>}
\* The row of the frame given is in the frame returned.
Retained(r) ==
    \E k \in DOMAIN cleaning.out.rows : cleaning.out.rows[k] = r
EntirelyEmpty(r) == r.Season = NaN /\ r.Squad = NaN /\ r.Comp = NaN

\* C27: clean_dataframe drops a row only if its season value is one of the
\* aggregate tokens, its competition value is one of the header tokens, or
\* the row is entirely empty; every other row is retained.
C27_OnlyBannerRowsDropped ==
    cleaning.done =>
        \A k \in DOMAIN cleaning.df.rows :
            LET r == cleaning.df.rows[k] IN
            ~Retained(r) =>
                \/ lower(r.Season) \in AggregateTokens
                \/ lower(r.Comp) \in HeaderTokens
                \/ EntirelyEmpty(r)


(***************************************************************************)
(* The properties of discover_all_leagues.                                 *)
(***************************************************************************)
\* The cache file is at most max_age_hours old at the hour.
Fresh(file, hour, max_age_hours) ==
    file.exists /\ file.cached_at # 0 /\ hour - file.cached_at <= max_age_hours
\* The valid entries of the cache file of the tiers and the gender asked for.
ValidMatching(file, tiers, gender) ==
    SelectSeq(file.leagues,
        LAMBDA l : valid_cached_league(l) /\ l.tier \in tiers
                   /\ l.gender = gender)
\* A step that is a call of discover_all_leagues.
DiscoverStep == discovered' # discovered \/ cache_file' # cache_file

\* C28: discover_all_leagues returns the cached leagues without a request
\* only when the cache is asked for, at most the maximum age old and holds
\* at least MIN_CACHED_LEAGUES valid entries of the requested tiers and
\* gender; otherwise it runs the discovery, and a discovery that completes
\* rewrites the cache; no call deletes the cache file.
C28_CacheReusedOnlyFreshAndSufficient ==
    [][DiscoverStep =>
        LET d == discovered'
            sufficient ==
                /\ d.use_cache
                /\ Fresh(cache_file, now, d.max_age_hours)
                /\ Len(ValidMatching(cache_file, d.tiers, d.gender))
                       >= MIN_CACHED_LEAGUES
        IN /\ d.outcome = "cache" <=> sufficient
           /\ d.outcome = "cache" =>
                  /\ cache_file' = cache_file
                  /\ d.leagues = ValidMatching(cache_file, d.tiers, d.gender)
           /\ d.outcome = "fetched" =>
                  cache_file' = [exists |-> TRUE, cached_at |-> now,
                                 leagues |-> d.leagues]
           /\ d.outcome = "raised" => cache_file' = cache_file
           /\ cache_file.exists => cache_file'.exists]_vars

\* A call found a fresh cache one league short of the threshold, ran the
\* discovery and rewrote the cache.
C28_Witness ==
    /\ discovered.outcome = "fetched"
    /\ discovered.use_cache
    /\ discovered.filtered = MIN_CACHED_LEAGUES - 1
    /\ cache_file = [exists |-> TRUE, cached_at |-> now,
                     leagues |-> discovered.leagues]


(***************************************************************************)
(* The property of a team call that finds every field player parsed.       *)
(***************************************************************************)
\* The team call that ended last, of a team with a squad URL.
EndedTeam == team_batch[team_idx - 1]
TeamCallEnded ==
    /\ tpc = "idle"
    /\ team_idx > 1
    /\ TeamInfo[EndedTeam].has_squad_url
\* parse_squad skipped every field player of the roster: their files exist.
AllFieldPlayersSkipped ==
    /\ team_result.skipped_players > 0
    /\ team_result.skipped_players = Len(SquadPage[EndedTeam].field_links)

\* C29: a team call in which every field player is skipped because the
\* output files exist, and which saves no new goalkeeper file, completes
\* normally: it is not recorded as the failure 'no players found'.
C29_SkippedRerunCompletes ==
    (/\ TeamCallEnded
     /\ AllFieldPlayersSkipped
     /\ team_result.goalkeepers_count = 0)
        => results[Len(results)].error = ""


(***************************************************************************)
(* The property of the request rate of one FBrefScraper.                   *)
(***************************************************************************)
\* C30: at every moment at most MAX_REQUESTS_PER_MINUTE requests, retried
\* attempts and the homepage visits included, have been sent during the
\* last 60 seconds.
C30_AtMostTenPerMinute == Len(http_sent) <= MAX_REQUESTS_PER_MINUTE

\* A request has just been sent and is the tenth of the last 60 seconds;
\* the deque holds the nine before it.
C30_Witness ==
    /\ spc = "sent"
    /\ Len(http_sent) = MAX_REQUESTS_PER_MINUTE
    /\ Len(request_times) = MAX_REQUESTS_PER_MINUTE - 1

=============================================================================
